---- MODULE Spec2Model ----
(***************************************************************************)
(* A model of devora's persistence layer: the document store               *)
(* (src-tauri/src/json_store.rs), the relational store (db.rs) and the     *)
(* one-shot SQLite -> JSON migration (migration.rs, called from lib.rs).   *)
(*                                                                         *)
(* Specifications:                                                         *)
(*   SpecWrite  one write_json_atomic call, step by step, with I/O errors  *)
(*              and process kills                                          *)
(*   SpecConc   two threads running child mutations of the document store  *)
(*              at the granularity of the store's lock scopes              *)
(*   SpecMig    application launches: migrate_if_needed, JsonStore::new,   *)
(*              a session of store operations, exit, next launch           *)
(*   Spec       whole CRUD operations applied to the document store and    *)
(*              to the relational store side by side                       *)
(***************************************************************************)
EXTENDS Naturals, Integers, Sequences, FiniteSets, TLC

VARIABLES
    disk,            \* files of the data directory: path -> [exists, bytes]
    sqlite_files,    \* projects.db / projects.db.migrated files, by directory
    metadata,        \* JsonStore.metadata (the in-memory index)
    projects_cache,  \* JsonStore.projects_cache
    conn,            \* Database.conn: the tables of the relational store
    clock,           \* the wall clock read by now()
    next_id,         \* ids handed out so far by new_id()
    last,            \* the last whole store operation and what it returned
    w,               \* the write_json_atomic call in progress (SpecWrite)
    thr,             \* the threads running store operations (SpecConc)
    mig,             \* the launch / migration in progress (SpecMig)
    metadata_mtime,  \* the modification time of metadata.json, None when absent
    last_metadata_mtime,  \* JsonStore.last_metadata_mtime
    rl               \* the reload call in progress (SpecReload)

\* the variables only SpecReload moves
rvars == <<metadata_mtime, last_metadata_mtime, rl>>

vars == <<disk, sqlite_files, metadata, projects_cache, conn, clock, next_id, last, w, thr, mig,
          rvars>>

---------------------------------------------------------------------------
(* Bounds *)

MaxIds == 3      \* ids new_id() may hand out (projects and children together)
MaxClock == 1    \* the clock runs 0..MaxClock

Ids == 1..MaxIds
Times == 0..MaxClock

---------------------------------------------------------------------------
(* Small helpers *)

NoneV == [some |-> FALSE]
Some(v) == [some |-> TRUE, v |-> v]

Range(s) == {s[i] : i \in DOMAIN s}

RECURSIVE SeqMax(_, _)
\* iter().max().unwrap_or(dflt) over a sequence of integers
SeqMax(s, dflt) ==
    IF s = <<>> THEN dflt
    ELSE LET m == SeqMax(Tail(s), dflt)
         IN IF Tail(s) = <<>> \/ Head(s) > m THEN Head(s) ELSE m

---------------------------------------------------------------------------
(* Files.  A file is [exists, bytes, via]; bytes is the sequence of chunks *)
(* written so far and via the call that put them at this path ("write":    *)
(* written through a handle opened on the path itself, "rename": moved     *)
(* there complete).  A serialized document is three chunks, so a prefix of *)
(* it is a truncated document that does not parse.                         *)

ABSENT == [exists |-> FALSE, bytes |-> <<>>, via |-> "none"]

metadata_path == <<"metadata", "json">>

project_path(id) == <<"projects", id, "json">>

\* PathBuf::with_extension: the last extension is replaced
with_extension(path, ext) == [path EXCEPT ![Len(path)] = ext]

\* the buggy variant: the temporary file is the destination itself
temp_path_in_place(path) == path

temp_path(path) == with_extension(path, "json.tmp")

DestPaths == {metadata_path} \cup {project_path(id) : id \in Ids}

AllPaths == DestPaths \cup {temp_path(p) : p \in DestPaths}

\* serde_json::to_string_pretty
to_string_pretty(data) == <<"{", data, "}">>

ParseOk(bytes) == Len(bytes) = 3 /\ bytes[1] = "{" /\ bytes[3] = "}"

\* serde_json::from_str on a file's bytes
from_str(bytes) == IF ParseOk(bytes) THEN [ok |-> TRUE, v |-> bytes[2]] ELSE [ok |-> FALSE]

\* a complete document that was moved into place
FileOf(data) == [exists |-> TRUE, bytes |-> to_string_pretty(data), via |-> "rename"]

\* fs::File::create: create or truncate
FileCreate(d, path) == [d EXCEPT ![path] = [exists |-> TRUE, bytes |-> <<>>, via |-> "write"]]

\* write_all of some chunks through an open handle
FileWrite(d, path, chunks) ==
    [d EXCEPT ![path] = [exists |-> TRUE, bytes |-> @.bytes \o chunks, via |-> "write"]]

\* fs::rename
FsRename(d, from, to) ==
    IF from = to THEN d
    ELSE [d EXCEPT ![to] = [d[from] EXCEPT !.via = "rename"], ![from] = ABSENT]

\* write_json_atomic when every step succeeds
write_json_atomic(d, path, data) ==
    LET tmp == temp_path(path)
    IN FsRename(FileWrite(FileCreate(d, tmp), tmp, to_string_pretty(data)), tmp, path)

EmptyDisk == [p \in AllPaths |-> ABSENT]

---------------------------------------------------------------------------
(* Documents *)

\* Metadata (json_store.rs) with the `projects` list migration.rs writes
MetadataDoc(ids, infos, settings) ==
    [version |-> 1, project_ids |-> ids, projects |-> infos, global_settings |-> settings]

\* ProjectData
ProjectDoc(id, name, items, todos, cards, created, updated) ==
    [id |-> id, name |-> name, items |-> items, todos |-> todos, file_cards |-> cards,
     created_at |-> created, updated_at |-> updated]

---------------------------------------------------------------------------
(* Idle values of the variables a specification does not use *)

NoStore == [open |-> FALSE]
NoConn == [open |-> FALSE]
NoLast == [op |-> "none"]
IdleW == [pc |-> "idle"]
IdleThr == <<>>
IdleMig == [pc |-> "off", failed |-> FALSE]
IdleRl == [pc |-> "idle"]

\* no reload is modelled: the modification times are not tracked
NoReload == metadata_mtime = NoneV /\ last_metadata_mtime = NoneV /\ rl = IdleRl

---------------------------------------------------------------------------
(* SpecWrite: JsonStore::write_json_atomic, one step at a time *)

WriteData(path) ==
    IF path = metadata_path
    THEN {MetadataDoc(ids, <<>>, <<>>) : ids \in {<<>>, <<1>>, <<1, 2>>}}
    ELSE {ProjectDoc(path[2], "a", <<>>, <<>>, <<>>, 0, t) : t \in Times}

WritePaths == {metadata_path, project_path(1)}

WInit ==
    /\ disk \in {[p \in AllPaths |-> IF p = metadata_path THEN m ELSE IF p = project_path(1) THEN q ELSE ABSENT] :
                   m \in {ABSENT} \cup {FileOf(x) : x \in WriteData(metadata_path)},
                   q \in {ABSENT} \cup {FileOf(x) : x \in WriteData(project_path(1))}}
    /\ sqlite_files = <<>>
    /\ metadata = NoStore
    /\ projects_cache = <<>>
    /\ conn = NoConn
    /\ clock = 0
    /\ next_id = 0
    /\ last = NoLast
    /\ w = IdleW
    /\ thr = IdleThr
    /\ mig = IdleMig
    /\ NoReload

WOthers == UNCHANGED <<sqlite_files, metadata, projects_cache, conn, clock, next_id, last, thr, mig, rvars>>

\* the call: serialize, then (parent directory exists) on to File::create
WCall(path, data) ==
    /\ w.pc = "idle"
    /\ w' = [pc |-> "create", path |-> path, json |-> to_string_pretty(data),
             off |-> 0, old |-> disk[path], ok |-> FALSE]
    /\ UNCHANGED disk
    /\ WOthers

\* fs::File::create(&temp_path)
WCreate ==
    /\ w.pc = "create"
    /\ disk' = FileCreate(disk, temp_path(w.path))
    /\ w' = [w EXCEPT !.pc = "write"]
    /\ WOthers

\* file.write_all: one chunk reaches the file per step
WWrite ==
    /\ w.pc = "write"
    /\ w.off < Len(w.json)
    /\ disk' = FileWrite(disk, temp_path(w.path), <<w.json[w.off + 1]>>)
    /\ w' = [w EXCEPT !.off = @ + 1]
    /\ WOthers

\* file.sync_all and drop(file)
WSync ==
    /\ w.pc = "write"
    /\ w.off = Len(w.json)
    /\ w' = [w EXCEPT !.pc = "rename"]
    /\ UNCHANGED disk
    /\ WOthers

\* fs::rename(&temp_path, path), Ok(())
WRename ==
    /\ w.pc = "rename"
    /\ disk' = FsRename(disk, temp_path(w.path), w.path)
    /\ w' = [w EXCEPT !.pc = "returned", !.ok = TRUE]
    /\ WOthers

\* any of the fallible steps returns an I/O error: map_err(..)?
WError ==
    /\ w.pc \in {"create", "write", "rename"}
    /\ w' = [w EXCEPT !.pc = "returned", !.ok = FALSE]
    /\ UNCHANGED disk
    /\ WOthers

\* the process is killed inside the call
WCrash ==
    /\ w.pc \in {"create", "write", "rename"}
    /\ w' = [w EXCEPT !.pc = "killed"]
    /\ UNCHANGED disk
    /\ WOthers

\* the caller goes on (or the process is started again)
WReturn ==
    /\ w.pc \in {"returned", "killed"}
    /\ w' = IdleW
    /\ UNCHANGED disk
    /\ WOthers

WNext ==
    \/ \E path \in WritePaths : \E data \in WriteData(path) : WCall(path, data)
    \/ WCreate
    \/ WWrite
    \/ WSync
    \/ WRename
    \/ WError
    \/ WCrash
    \/ WReturn

SpecWrite == WInit /\ [][WNext]_vars

(* C2: whatever step of write_json_atomic a crash or an error interrupts,  *)
(* the destination file holds its complete previous content or the         *)
(* complete new content.                                                   *)
C2_AtomicReplace ==
    w.pc # "idle" =>
        \/ disk[w.path] = w.old
        \/ disk[w.path].exists /\ disk[w.path].bytes = w.json

\* killed while the temporary file is half written, over an existing document
C2_Witness ==
    /\ w.pc = "killed"
    /\ w.old.exists
    /\ disk[temp_path(w.path)].exists
    /\ Len(disk[temp_path(w.path)].bytes) = 2
    /\ disk[w.path] = w.old
    /\ w.old.bytes # w.json

---------------------------------------------------------------------------
(* The document store (json_store.rs).  Its state is passed around as      *)
(* js = [disk, cache, metadata]; every operation returns the new js and    *)
(* what the caller gets back.                                              *)

JsState == [disk |-> disk, cache |-> projects_cache, metadata |-> metadata]

\* HashMap::insert
Put(f, k, v) == [x \in DOMAIN f \cup {k} |-> IF x = k THEN v ELSE f[x]]

\* HashMap::remove
Drop(f, k) == [x \in DOMAIN f \ {k} |-> f[x]]

\* the Metadata struct of json_store.rs as it reads a metadata.json
MetadataFromDoc(doc) ==
    [open |-> TRUE, version |-> doc.version, project_ids |-> doc.project_ids,
     global_settings |-> doc.global_settings]

\* ... and as it is serialized: the struct has no `projects` list
MetadataToDoc(m) ==
    [MetadataDoc(m.project_ids, <<>>, m.global_settings) EXCEPT !.version = m.version]

load_project(js, id) ==
    IF id \in DOMAIN js.cache
    THEN [ok |-> TRUE, data |-> js.cache[id], js |-> js]
    ELSE LET f == js.disk[project_path(id)]
             p == from_str(f.bytes)
         IN IF f.exists /\ p.ok
            THEN [ok |-> TRUE, data |-> p.v, js |-> [js EXCEPT !.cache = Put(@, id, p.v)]]
            ELSE [ok |-> FALSE, js |-> js]

save_project(js, project) ==
    [js EXCEPT !.disk = write_json_atomic(@, project_path(project.id), project),
               !.cache = Put(@, project.id, project)]

save_metadata(js) ==
    [js EXCEPT !.disk = write_json_atomic(@, metadata_path, MetadataToDoc(js.metadata))]

\* JsonStore::new on a data directory
json_new(d) ==
    LET f == d[metadata_path]
        p == from_str(f.bytes)
        fresh == [open |-> TRUE, version |-> 1, project_ids |-> <<>>, global_settings |-> <<>>]
    IN IF f.exists
       THEN IF p.ok
            THEN [ok |-> TRUE, js |-> [disk |-> d, cache |-> <<>>, metadata |-> MetadataFromDoc(p.v)]]
            ELSE [ok |-> FALSE]
       ELSE [ok |-> TRUE,
             js |-> [disk |-> write_json_atomic(d, metadata_path, MetadataToDoc(fresh)),
                     cache |-> <<>>, metadata |-> fresh]]

\* position of the first element of s with this id, 0 when there is none
IndexOfId(s, id) ==
    IF \E i \in DOMAIN s : s[i].id = id
    THEN CHOOSE i \in DOMAIN s : s[i].id = id /\ \A j \in 1..(i - 1) : s[j].id # id
    ELSE 0

\* Vec::retain(|x| x.id != id)
RetainNot(s, id) == SelectSeq(s, LAMBDA x : x.id # id)

\* the variant that leaves the vector as it is
sort_by_order_skipped(s) == s

RECURSIVE sort_by_order(_)
\* Vec::sort_by_key(|x| x.order): a stable sort
sort_by_order(s) ==
    IF s = <<>> THEN <<>>
    ELSE LET rest == sort_by_order(Tail(s))
             x == Head(s)
             before == SelectSeq(rest, LAMBDA y : y.order < x.order)
             after == SelectSeq(rest, LAMBDA y : y.order >= x.order)
         IN before \o <<x>> \o after

\* max(existing) + 1, or 0 when there is none
NextCounter(s, field) == SeqMax([i \in DOMAIN s |-> s[i][field]], -1) + 1

RECURSIVE scan_projects(_, _, _, _)
\* the loop of update_* / delete_*: the first project of the index, in order,
\* whose document loads and holds a child of this kind with this id
scan_projects(js, ids, kind, id) ==
    IF ids = <<>> THEN [found |-> FALSE, js |-> js]
    ELSE LET r == load_project(js, Head(ids))
         IN IF r.ok /\ IndexOfId(r.data[kind], id) > 0
            THEN [found |-> TRUE, data |-> r.data, js |-> r.js]
            ELSE scan_projects(r.js, Tail(ids), kind, id)

json_create_project(js, id, name, ts) ==
    LET project_data == ProjectDoc(id, name, <<>>, <<>>, <<>>, ts, ts)
        js1 == save_project(js, project_data)
        js2 == [js1 EXCEPT !.metadata.project_ids = Append(@, id)]
    IN [ok |-> TRUE, js |-> save_metadata(js2), project |-> id]

json_update_project(js, id, name, ts) ==
    LET r == load_project(js, id)
        d1 == IF name.some THEN [r.data EXCEPT !.name = name.v] ELSE r.data
        d2 == [d1 EXCEPT !.updated_at = ts]
    IN IF ~r.ok THEN [ok |-> FALSE, js |-> r.js, project |-> 0]
       ELSE [ok |-> TRUE, js |-> save_project(r.js, d2), project |-> id]

json_delete_project(js, id) ==
    IF id \notin Range(js.metadata.project_ids) THEN [ok |-> FALSE, js |-> js, project |-> 0]
    ELSE LET js1 == [js EXCEPT !.disk[project_path(id)] = ABSENT,
                               !.cache = Drop(@, id),
                               !.metadata.project_ids = SelectSeq(@, LAMBDA pid : pid # id)]
         IN [ok |-> TRUE, js |-> save_metadata(js1), project |-> 0]

\* the buggy variant: the parent's updated_at is left alone
TouchProject_forgotten(project_data, ts) == project_data

\* project_data.updated_at = timestamp
TouchProject(project_data, ts) == [project_data EXCEPT !.updated_at = ts]

\* create_item between load_project and save_project
create_item_body(project_data, project_id, id, title, coding_agent_args, coding_agent_env, ts) ==
    LET order == NextCounter(project_data.items, "order")
        item == [id |-> id, project_id |-> project_id, title |-> title,
                 coding_agent_args |-> coding_agent_args,
                 coding_agent_env |-> coding_agent_env,
                 order |-> order, updated_at |-> ts]
    IN TouchProject([project_data EXCEPT !.items = Append(@, item)], ts)

json_create_item(js, project_id, id, title, coding_agent_args, coding_agent_env, ts) ==
    LET r == load_project(js, project_id)
    IN IF ~r.ok THEN [ok |-> FALSE, js |-> r.js, project |-> 0]
       ELSE [ok |-> TRUE, project |-> project_id,
             js |-> save_project(r.js, create_item_body(r.data, project_id, id, title,
                                                        coding_agent_args, coding_agent_env, ts))]

\* an Option<Option<&str>> argument applied to a stored Option<String>:
\* if let Some(x) = arg { field = x.map(|s| s.to_string()) }
SetIfProvided(field, arg) == IF arg.some THEN arg.v ELSE field

json_update_item(js, id, title, coding_agent_args, coding_agent_env, order, ts) ==
    LET r == scan_projects(js, js.metadata.project_ids, "items", id)
        i == IndexOfId(r.data.items, id)
        it1 == IF title.some THEN [r.data.items[i] EXCEPT !.title = title.v] ELSE r.data.items[i]
        it1a == [it1 EXCEPT !.coding_agent_args = SetIfProvided(@, coding_agent_args),
                            !.coding_agent_env = SetIfProvided(@, coding_agent_env)]
        it2 == IF order.some THEN [it1a EXCEPT !.order = order.v] ELSE it1a
        it3 == [it2 EXCEPT !.updated_at = ts]
        d1 == TouchProject([r.data EXCEPT !.items[i] = it3], it3.updated_at)
    IN IF ~r.found THEN [ok |-> FALSE, js |-> r.js, project |-> 0]
       ELSE [ok |-> TRUE, js |-> save_project(r.js, d1), project |-> r.data.id]

json_delete_item(js, id, ts) ==
    LET r == scan_projects(js, js.metadata.project_ids, "items", id)
        d1 == TouchProject([r.data EXCEPT !.items = RetainNot(@, id)], ts)
    IN IF ~r.found THEN [ok |-> FALSE, js |-> r.js, project |-> 0]
       ELSE [ok |-> TRUE, js |-> save_project(r.js, d1), project |-> r.data.id]

RECURSIVE ReorderLoop(_, _, _, _)
\* for (index, id) in ids.iter().enumerate(): the first child with that id
\* gets order = index and updated_at = timestamp
ReorderLoop(s, ids, index, ts) ==
    IF ids = <<>> THEN s
    ELSE LET i == IndexOfId(s, Head(ids))
             s1 == IF i = 0 THEN s ELSE [s EXCEPT ![i].order = index, ![i].updated_at = ts]
         IN ReorderLoop(s1, Tail(ids), index + 1, ts)

json_reorder_items(js, project_id, item_ids, ts) ==
    LET r == load_project(js, project_id)
        items == sort_by_order(ReorderLoop(r.data.items, item_ids, 0, ts))
        d1 == TouchProject([r.data EXCEPT !.items = items], ts)
    IN IF ~r.ok THEN [ok |-> FALSE, js |-> r.js, project |-> 0]
       ELSE [ok |-> TRUE, js |-> save_project(r.js, d1), project |-> project_id]

json_create_file_card(js, project_id, id, ts) ==
    LET r == load_project(js, project_id)
        card == [id |-> id, project_id |-> project_id,
                 is_expanded |-> FALSE,
                 z_index |-> NextCounter(r.data.file_cards, "z_index"), updated_at |-> ts]
        d1 == [r.data EXCEPT !.file_cards = Append(@, card)]
    IN IF ~r.ok THEN [ok |-> FALSE, js |-> r.js, project |-> 0]
       ELSE [ok |-> TRUE, js |-> save_project(r.js, d1), project |-> project_id]

json_update_file_card(js, id, z_index, ts) ==
    LET r == scan_projects(js, js.metadata.project_ids, "file_cards", id)
        i == IndexOfId(r.data.file_cards, id)
        c1 == IF z_index.some THEN [r.data.file_cards[i] EXCEPT !.z_index = z_index.v]
              ELSE r.data.file_cards[i]
        d1 == [r.data EXCEPT !.file_cards[i] = [c1 EXCEPT !.updated_at = ts]]
    IN IF ~r.found THEN [ok |-> FALSE, js |-> r.js, project |-> 0]
       ELSE [ok |-> TRUE, js |-> save_project(r.js, d1), project |-> r.data.id]

json_delete_file_card(js, id) ==
    LET r == scan_projects(js, js.metadata.project_ids, "file_cards", id)
        d1 == [r.data EXCEPT !.file_cards = RetainNot(@, id)]
    IN IF ~r.found THEN [ok |-> FALSE, js |-> r.js, project |-> 0]
       ELSE [ok |-> TRUE, js |-> save_project(r.js, d1), project |-> r.data.id]

\* the variant that creates the todo as completed, with no completion time
create_todo_body_completed(project_data, project_id, id, ts) ==
    LET todo == [id |-> id, project_id |-> project_id, completed |-> TRUE,
                 order |-> NextCounter(project_data.todos, "order"), updated_at |-> ts,
                 completed_at |-> NoneV]
    IN [project_data EXCEPT !.todos = Append(@, todo)]

\* create_todo between load_project and save_project
create_todo_body(project_data, project_id, id, ts) ==
    LET todo == [id |-> id, project_id |-> project_id, completed |-> FALSE,
                 order |-> NextCounter(project_data.todos, "order"), updated_at |-> ts,
                 completed_at |-> NoneV]
    IN [project_data EXCEPT !.todos = Append(@, todo)]

json_create_todo(js, project_id, id, ts) ==
    LET r == load_project(js, project_id)
    IN IF ~r.ok THEN [ok |-> FALSE, js |-> r.js, project |-> 0]
       ELSE [ok |-> TRUE, project |-> project_id,
             js |-> save_project(r.js, create_todo_body(r.data, project_id, id, ts))]

json_update_todo(js, id, completed, order, ts) ==
    LET r == scan_projects(js, js.metadata.project_ids, "todos", id)
        i == IndexOfId(r.data.todos, id)
        todo == r.data.todos[i]
        was_completed == todo.completed
        t1 == IF ~completed.some THEN todo
              ELSE IF completed.v /\ ~was_completed
                   THEN [todo EXCEPT !.completed = TRUE, !.completed_at = Some(ts)]
              ELSE IF ~completed.v
                   THEN [todo EXCEPT !.completed = FALSE, !.completed_at = NoneV]
              ELSE [todo EXCEPT !.completed = completed.v]
        t2 == IF order.some THEN [t1 EXCEPT !.order = order.v] ELSE t1
        d1 == [r.data EXCEPT !.todos[i] = [t2 EXCEPT !.updated_at = ts]]
    IN IF ~r.found THEN [ok |-> FALSE, js |-> r.js, project |-> 0]
       ELSE [ok |-> TRUE, js |-> save_project(r.js, d1), project |-> r.data.id]

json_delete_todo(js, id) ==
    LET r == scan_projects(js, js.metadata.project_ids, "todos", id)
        d1 == [r.data EXCEPT !.todos = RetainNot(@, id)]
    IN IF ~r.found THEN [ok |-> FALSE, js |-> r.js, project |-> 0]
       ELSE [ok |-> TRUE, js |-> save_project(r.js, d1), project |-> r.data.id]

json_reorder_todos(js, project_id, todo_ids, ts) ==
    LET r == load_project(js, project_id)
        d1 == [r.data EXCEPT !.todos = sort_by_order(ReorderLoop(@, todo_ids, 0, ts))]
    IN IF ~r.ok THEN [ok |-> FALSE, js |-> r.js, project |-> 0]
       ELSE [ok |-> TRUE, js |-> save_project(r.js, d1), project |-> project_id]

---------------------------------------------------------------------------
(* SpecConc: threads calling create_item / create_todo of the document     *)
(* store on one project.  A step is what a thread does under one lock      *)
(* scope of load_project / save_project, or one file-system call; the      *)
(* store holds no lock from load_project to save_project.                  *)

MaxThreads == 2
MaxCalls == 2    \* calls each thread makes

Threads == 1..MaxThreads

\* the project every call is about: the first id handed out
ConcProject == CHOOSE id \in Ids : \A other \in Ids : id <= other

\* a thread between calls: `calls` counts its calls, `acked` holds the ids
\* of the children its calls returned with Ok
ThreadIdle(calls, acked) ==
    [pc |-> "idle", calls |-> calls, acked |-> acked, op |-> "none", project_id |-> 0,
     project_data |-> NoneV, id |-> 0]

CInit ==
    /\ LET js == json_create_project(json_new(EmptyDisk).js, ConcProject, "a", 0).js
       IN /\ disk = js.disk
          /\ metadata = js.metadata
          \* the project is cached by the call that created it, not after a restart
          /\ projects_cache \in {js.cache, <<>>}
    /\ sqlite_files = <<>>
    /\ conn = NoConn
    /\ clock = 0
    /\ next_id = ConcProject
    /\ last = NoLast
    /\ w = IdleW
    /\ thr = [t \in Threads |-> ThreadIdle(0, {})]
    /\ mig = IdleMig
    /\ NoReload

COthers == UNCHANGED <<sqlite_files, metadata, conn, clock, last, w, mig, rvars>>

\* create_item(project_id, ..) / create_todo(project_id, ..) is called
CCall(t, op) ==
    /\ thr[t].pc = "idle"
    /\ thr[t].calls < MaxCalls
    /\ thr' = [thr EXCEPT ![t].pc = "cache_get", ![t].calls = @ + 1, ![t].op = op,
                          ![t].project_id = ConcProject]
    /\ UNCHANGED <<disk, projects_cache, next_id>>
    /\ COthers

\* load_project: the cache lookup under the read lock
CCacheGet(t) ==
    /\ thr[t].pc = "cache_get"
    /\ thr' = [thr EXCEPT ![t] =
                 IF @.project_id \in DOMAIN projects_cache
                 THEN [@ EXCEPT !.pc = "body", !.project_data = projects_cache[thr[t].project_id]]
                 ELSE [@ EXCEPT !.pc = "read_file"]]
    /\ UNCHANGED <<disk, projects_cache, next_id>>
    /\ COthers

\* load_project: fs::read_to_string and serde_json::from_str, no lock held
CReadFile(t) ==
    /\ thr[t].pc = "read_file"
    /\ LET f == disk[project_path(thr[t].project_id)]
           p == from_str(f.bytes)
       IN thr' = [thr EXCEPT ![t] =
                    IF f.exists /\ p.ok
                    THEN [@ EXCEPT !.pc = "cache_fill", !.project_data = p.v]
                    ELSE ThreadIdle(@.calls, @.acked)]
    /\ UNCHANGED <<disk, projects_cache, next_id>>
    /\ COthers

\* load_project: the insert of the loaded copy under the write lock
CCacheFill(t) ==
    /\ thr[t].pc = "cache_fill"
    /\ projects_cache' = Put(projects_cache, thr[t].project_id, thr[t].project_data)
    /\ thr' = [thr EXCEPT ![t].pc = "body"]
    /\ UNCHANGED <<disk, next_id>>
    /\ COthers

\* the body of the operation on the thread's own copy of the document
CBody(t) ==
    /\ thr[t].pc = "body"
    /\ LET id == next_id + 1
           d == thr[t].project_data
       IN /\ next_id' = id
          /\ thr' = [thr EXCEPT ![t].pc = "write_file", ![t].id = id,
                        ![t].project_data =
                            IF thr[t].op = "create_item"
                            THEN create_item_body(d, thr[t].project_id, id, "t", NoneV, NoneV, clock)
                            ELSE create_todo_body(d, thr[t].project_id, id, clock)]
    /\ UNCHANGED <<disk, projects_cache>>
    /\ COthers

\* save_project: write_json_atomic of the thread's copy
CWriteFile(t) ==
    /\ thr[t].pc = "write_file"
    /\ disk' = write_json_atomic(disk, project_path(thr[t].project_data.id), thr[t].project_data)
    /\ thr' = [thr EXCEPT ![t].pc = "cache_put"]
    /\ UNCHANGED <<projects_cache, next_id>>
    /\ COthers

\* save_project: the cache insert under the write lock, then Ok(item)
CCachePut(t) ==
    /\ thr[t].pc = "cache_put"
    /\ projects_cache' = Put(projects_cache, thr[t].project_data.id, thr[t].project_data)
    /\ thr' = [thr EXCEPT ![t] = ThreadIdle(@.calls, @.acked \cup {@.id})]
    /\ UNCHANGED <<disk, next_id>>
    /\ COthers

CNext ==
    \E t \in Threads :
        \/ \E op \in {"create_item", "create_todo"} : CCall(t, op)
        \/ CCacheGet(t)
        \/ CReadFile(t)
        \/ CCacheFill(t)
        \/ CBody(t)
        \/ CWriteFile(t)
        \/ CCachePut(t)

SpecConc == CInit /\ [][CNext]_vars

\* ids of the items and todos of a project document
ChildIds(project_data) ==
    {project_data.items[i].id : i \in DOMAIN project_data.items}
        \cup {project_data.todos[i].id : i \in DOMAIN project_data.todos}

\* the children whose creation was answered with Ok
Acked == UNION {thr[t].acked : t \in Threads}

(* C1: once the concurrent calls have returned, the project document, in   *)
(* the cache and on disk, holds every child whose create call returned Ok. *)
C1_NoLostUpdate ==
    (\A t \in Threads : thr[t].pc = "idle") =>
        /\ ConcProject \in DOMAIN projects_cache => Acked \subseteq ChildIds(projects_cache[ConcProject])
        /\ Acked \subseteq ChildIds(from_str(disk[project_path(ConcProject)].bytes).v)

---------------------------------------------------------------------------
(* The relational store (db.rs).  conn holds the tables as sets of rows;   *)
(* every operation runs under the connection mutex and returns the new     *)
(* tables.                                                                 *)

EmptyTables ==
    [open |-> TRUE, projects |-> {}, items |-> {}, file_cards |-> {}, todos |-> {},
     settings |-> <<>>]

RowsOf(table, project_id) == {r \in table : r.project_id = project_id}

HasId(table, id) == \E r \in table : r.id = id

RowById(table, id) == CHOOSE r \in table : r.id = id

\* SELECT COALESCE(MAX(field), -1) + 1 FROM table WHERE project_id = ?
NextCounterSql(table, project_id, field) ==
    IF RowsOf(table, project_id) = {} THEN 0
    ELSE (CHOOSE m \in {r[field] : r \in RowsOf(table, project_id)} :
             \A r \in RowsOf(table, project_id) : r[field] <= m) + 1

\* the buggy variant: the touch statement is left out
touch_sql_forgotten(c, project_id, ts) == c

\* UPDATE projects SET updated_at = ? WHERE id = ?
touch_sql(c, project_id, ts) ==
    [c EXCEPT !.projects = {IF r.id = project_id THEN [r EXCEPT !.updated_at = ts] ELSE r : r \in @}]

db_create_project(c, id, name, ts) ==
    [ok |-> TRUE, project |-> id,
     c |-> [c EXCEPT !.projects =
                @ \cup {[id |-> id, name |-> name, description |-> "", created_at |-> ts,
                         updated_at |-> ts]}]]

db_update_project(c, id, name, ts) ==
    LET existing == RowById(c.projects, id)
        row == [existing EXCEPT !.name = IF name.some THEN name.v ELSE @, !.updated_at = ts]
    IN IF ~HasId(c.projects, id) THEN [ok |-> FALSE, c |-> c, project |-> 0]
       ELSE [ok |-> TRUE, c |-> [c EXCEPT !.projects = (@ \ {existing}) \cup {row}], project |-> id]

\* DELETE FROM projects WHERE id = ?, with ON DELETE CASCADE on the children
db_delete_project(c, id) ==
    [ok |-> HasId(c.projects, id), project |-> 0,
     c |-> [c EXCEPT !.projects = {r \in @ : r.id # id},
                     !.items = {r \in @ : r.project_id # id},
                     !.file_cards = {r \in @ : r.project_id # id},
                     !.todos = {r \in @ : r.project_id # id}]]

\* the INSERT fails on the foreign key when the project row is missing
db_create_item(c, project_id, id, title, coding_agent_args, coding_agent_env, ts) ==
    LET item == [id |-> id, project_id |-> project_id, title |-> title,
                 coding_agent_args |-> coding_agent_args,
                 coding_agent_env |-> coding_agent_env,
                 order |-> NextCounterSql(c.items, project_id, "order"), updated_at |-> ts]
    IN IF ~HasId(c.projects, project_id) THEN [ok |-> FALSE, c |-> c, project |-> 0]
       ELSE [ok |-> TRUE, c |-> touch_sql([c EXCEPT !.items = @ \cup {item}], project_id, ts),
             project |-> project_id]

\* the variant that stores the provided value as it is, without the
\* empty-string case
ThreeState_as_given(existing, arg) == IF arg.some THEN arg.v ELSE existing

\* match arg { Some(Some("")) => None, Some(Some(s)) => Some(s),
\*             Some(None) => None, None => existing }
ThreeState(existing, arg) ==
    IF ~arg.some THEN existing
    ELSE IF ~arg.v.some THEN NoneV
    ELSE IF arg.v.v = "" THEN NoneV
    ELSE Some(arg.v.v)

db_update_item(c, id, title, coding_agent_args, coding_agent_env, order, ts) ==
    LET existing == RowById(c.items, id)
        row == [existing EXCEPT !.title = IF title.some THEN title.v ELSE @,
                                !.coding_agent_args = ThreeState(@, coding_agent_args),
                                !.coding_agent_env = ThreeState(@, coding_agent_env),
                                !.order = IF order.some THEN order.v ELSE @,
                                !.updated_at = ts]
    IN IF ~HasId(c.items, id) THEN [ok |-> FALSE, c |-> c, project |-> 0]
       ELSE [ok |-> TRUE,
             c |-> touch_sql([c EXCEPT !.items = (@ \ {existing}) \cup {row}], existing.project_id, ts),
             project |-> existing.project_id]

db_delete_item(c, id, ts) ==
    LET existing == RowById(c.items, id)
    IN IF ~HasId(c.items, id) THEN [ok |-> FALSE, c |-> c, project |-> 0]
       ELSE [ok |-> TRUE,
             c |-> touch_sql([c EXCEPT !.items = @ \ {existing}], existing.project_id, ts),
             project |-> existing.project_id]

RECURSIVE ReorderSql(_, _, _, _, _)
\* UPDATE .. SET "order" = index, updated_at = ? WHERE id = ? AND project_id = ?
ReorderSql(table, project_id, ids, index, ts) ==
    IF ids = <<>> THEN table
    ELSE LET t1 == {IF r.id = Head(ids) /\ r.project_id = project_id
                    THEN [r EXCEPT !.order = index, !.updated_at = ts] ELSE r : r \in table}
         IN ReorderSql(t1, project_id, Tail(ids), index + 1, ts)

db_reorder_items(c, project_id, item_ids, ts) ==
    [ok |-> TRUE,
     c |-> touch_sql([c EXCEPT !.items = ReorderSql(@, project_id, item_ids, 0, ts)], project_id, ts),
     project |-> IF HasId(c.projects, project_id) THEN project_id ELSE 0]

db_create_file_card(c, project_id, id, ts) ==
    LET card == [id |-> id, project_id |-> project_id,
                 is_expanded |-> 0,
                 z_index |-> NextCounterSql(c.file_cards, project_id, "z_index"), updated_at |-> ts]
    IN IF ~HasId(c.projects, project_id) THEN [ok |-> FALSE, c |-> c, project |-> 0]
       ELSE [ok |-> TRUE, c |-> [c EXCEPT !.file_cards = @ \cup {card}], project |-> project_id]

db_update_file_card(c, id, z_index, ts) ==
    LET existing == RowById(c.file_cards, id)
        row == [existing EXCEPT !.z_index = IF z_index.some THEN z_index.v ELSE @,
                                !.updated_at = ts]
    IN IF ~HasId(c.file_cards, id) THEN [ok |-> FALSE, c |-> c, project |-> 0]
       ELSE [ok |-> TRUE, c |-> [c EXCEPT !.file_cards = (@ \ {existing}) \cup {row}],
             project |-> existing.project_id]

db_delete_file_card(c, id) ==
    IF ~HasId(c.file_cards, id) THEN [ok |-> FALSE, c |-> c, project |-> 0]
    ELSE [ok |-> TRUE, c |-> [c EXCEPT !.file_cards = {r \in @ : r.id # id}],
          project |-> RowById(c.file_cards, id).project_id]

db_create_todo(c, project_id, id, ts) ==
    LET todo == [id |-> id, project_id |-> project_id, completed |-> FALSE,
                 order |-> NextCounterSql(c.todos, project_id, "order"), updated_at |-> ts,
                 completed_at |-> NoneV]
    IN IF ~HasId(c.projects, project_id) THEN [ok |-> FALSE, c |-> c, project |-> 0]
       ELSE [ok |-> TRUE, c |-> [c EXCEPT !.todos = @ \cup {todo}], project |-> project_id]

\* the variants that never clear completed_at / that stamp it on every
\* update of a completed todo
CompletedAt_never_cleared(existing, new_completed, ts) ==
    IF new_completed /\ ~existing.completed THEN Some(ts) ELSE existing.completed_at

CompletedAt_always_stamped(existing, new_completed, ts) ==
    IF new_completed THEN Some(ts) ELSE NoneV

\* let completed_at = if new_completed && existing.3 == 0 { Some(timestamp) }
\*                    else if !new_completed { None } else { existing.8 }
CompletedAt(existing, new_completed, ts) ==
    IF new_completed /\ ~existing.completed THEN Some(ts)
    ELSE IF ~new_completed THEN NoneV
    ELSE existing.completed_at

db_update_todo(c, id, completed, order, ts) ==
    LET existing == RowById(c.todos, id)
        new_completed == IF completed.some THEN completed.v ELSE existing.completed
        completed_at == CompletedAt(existing, new_completed, ts)
        row == [existing EXCEPT !.completed = new_completed,
                                !.order = IF order.some THEN order.v ELSE @,
                                !.updated_at = ts, !.completed_at = completed_at]
    IN IF ~HasId(c.todos, id) THEN [ok |-> FALSE, c |-> c, project |-> 0]
       ELSE [ok |-> TRUE, c |-> [c EXCEPT !.todos = (@ \ {existing}) \cup {row}],
             project |-> existing.project_id]

db_delete_todo(c, id) ==
    IF ~HasId(c.todos, id) THEN [ok |-> FALSE, c |-> c, project |-> 0]
    ELSE [ok |-> TRUE, c |-> [c EXCEPT !.todos = {r \in @ : r.id # id}],
          project |-> RowById(c.todos, id).project_id]

db_reorder_todos(c, project_id, todo_ids, ts) ==
    [ok |-> TRUE, c |-> [c EXCEPT !.todos = ReorderSql(@, project_id, todo_ids, 0, ts)],
     project |-> IF HasId(c.projects, project_id) THEN project_id ELSE 0]

---------------------------------------------------------------------------
(* Spec: whole operations, each applied to the document store and to the   *)
(* relational store with the same arguments, id and timestamp.             *)

Init ==
    /\ disk = json_new(EmptyDisk).js.disk
    /\ metadata = json_new(EmptyDisk).js.metadata
    /\ projects_cache = <<>>
    /\ conn = EmptyTables
    /\ sqlite_files = <<>>
    /\ clock = 0
    /\ next_id = 0
    /\ last = NoLast
    /\ w = IdleW
    /\ thr = IdleThr
    /\ mig = IdleMig
    /\ NoReload

\* the project document as the document store would read it now
JsonProject(js, id) == load_project(js, id).data

JsonHas(js, id) == load_project(js, id).ok

DbProject(c, id) == RowById(c.projects, id)

\* both stores take the result of one operation; last names the operation
\* and the project it changed in each store (0: none there, or the call
\* failed there), and is cleared by a call that changed no project
Apply(op, rj, rd) ==
    /\ disk' = rj.js.disk
    /\ projects_cache' = rj.js.cache
    /\ metadata' = rj.js.metadata
    /\ conn' = rd.c
    /\ last' = IF rj.project = 0 /\ rd.project = 0
               THEN NoLast
               ELSE [op |-> op, project |-> rj.project, project_db |-> rd.project]
    /\ UNCHANGED <<sqlite_files, clock, w, thr, mig, rvars>>

\* a created record takes the next id only when one of the stores created it
Created(rj, rd) == next_id' = IF rj.ok \/ rd.ok THEN next_id + 1 ELSE next_id

MaxReorder == 2

ReorderArgs == UNION {[1..n -> Ids] : n \in 0..MaxReorder}

OptOrder == {NoneV, Some(2)}

OptBool == {NoneV, Some(TRUE), Some(FALSE)}

Tick ==
    /\ clock < MaxClock
    /\ clock' = clock + 1
    /\ last' = NoLast
    /\ UNCHANGED <<disk, sqlite_files, metadata, projects_cache, conn, next_id, w, thr, mig, rvars>>

CreateProject ==
    /\ next_id < MaxIds
    /\ LET rj == json_create_project(JsState, next_id + 1, "a", clock)
           rd == db_create_project(conn, next_id + 1, "a", clock)
       IN Apply("create_project", rj, rd)
    /\ next_id' = next_id + 1

UpdateProject(id, name) ==
    /\ LET rj == json_update_project(JsState, id, name, clock)
           rd == db_update_project(conn, id, name, clock)
       IN Apply("update_project", rj, rd)
    /\ UNCHANGED next_id

DeleteProject(id) ==
    /\ LET rj == json_delete_project(JsState, id)
           rd == db_delete_project(conn, id)
       IN Apply("delete_project", rj, rd)
    /\ UNCHANGED next_id

CreateItem(project_id) ==
    /\ next_id < MaxIds
    /\ LET rj == json_create_item(JsState, project_id, next_id + 1, "t", NoneV, NoneV, clock)
           rd == db_create_item(conn, project_id, next_id + 1, "t", NoneV, NoneV, clock)
       IN Apply("create_item", rj, rd) /\ Created(rj, rd)

UpdateItem(id, title, order) ==
    /\ Apply("update_item", json_update_item(JsState, id, title, NoneV, NoneV, order, clock),
             db_update_item(conn, id, title, NoneV, NoneV, order, clock))
    /\ UNCHANGED next_id

DeleteItem(id) ==
    /\ Apply("delete_item", json_delete_item(JsState, id, clock),
             db_delete_item(conn, id, clock))
    /\ UNCHANGED next_id

ReorderItems(project_id, item_ids) ==
    /\ Apply("reorder_items", json_reorder_items(JsState, project_id, item_ids, clock),
             db_reorder_items(conn, project_id, item_ids, clock))
    /\ UNCHANGED next_id

CreateFileCard(project_id) ==
    /\ next_id < MaxIds
    /\ LET rj == json_create_file_card(JsState, project_id, next_id + 1, clock)
           rd == db_create_file_card(conn, project_id, next_id + 1, clock)
       IN Apply("create_file_card", rj, rd) /\ Created(rj, rd)

UpdateFileCard(id, z_index) ==
    /\ Apply("update_file_card", json_update_file_card(JsState, id, z_index, clock),
             db_update_file_card(conn, id, z_index, clock))
    /\ UNCHANGED next_id

DeleteFileCard(id) ==
    /\ Apply("delete_file_card", json_delete_file_card(JsState, id),
             db_delete_file_card(conn, id))
    /\ UNCHANGED next_id

CreateTodo(project_id) ==
    /\ next_id < MaxIds
    /\ LET rj == json_create_todo(JsState, project_id, next_id + 1, clock)
           rd == db_create_todo(conn, project_id, next_id + 1, clock)
       IN Apply("create_todo", rj, rd) /\ Created(rj, rd)

UpdateTodo(id, completed, order) ==
    /\ Apply("update_todo", json_update_todo(JsState, id, completed, order, clock),
             db_update_todo(conn, id, completed, order, clock))
    /\ UNCHANGED next_id

DeleteTodo(id) ==
    /\ Apply("delete_todo", json_delete_todo(JsState, id), db_delete_todo(conn, id))
    /\ UNCHANGED next_id

ReorderTodos(project_id, todo_ids) ==
    /\ Apply("reorder_todos", json_reorder_todos(JsState, project_id, todo_ids, clock),
             db_reorder_todos(conn, project_id, todo_ids, clock))
    /\ UNCHANGED next_id

Next ==
    \/ Tick
    \/ CreateProject
    \/ \E id \in Ids : \E name \in {NoneV, Some("b")} : UpdateProject(id, name)
    \/ \E id \in Ids : DeleteProject(id)
    \/ \E id \in Ids : CreateItem(id)
    \/ \E id \in Ids : \E title \in {NoneV, Some("u")} : \E order \in OptOrder : UpdateItem(id, title, order)
    \/ \E id \in Ids : DeleteItem(id)
    \/ \E id \in Ids : \E ids \in ReorderArgs : ReorderItems(id, ids)
    \/ \E id \in Ids : CreateFileCard(id)
    \/ \E id \in Ids : \E z \in {NoneV, Some(0)} : UpdateFileCard(id, z)
    \/ \E id \in Ids : DeleteFileCard(id)
    \/ \E id \in Ids : CreateTodo(id)
    \/ \E id \in Ids : \E completed \in OptBool : \E order \in OptOrder : UpdateTodo(id, completed, order)
    \/ \E id \in Ids : DeleteTodo(id)
    \/ \E id \in Ids : \E ids \in ReorderArgs : ReorderTodos(id, ids)

Spec == Init /\ [][Next]_vars

\* the document store after the step
JsStateNext == [disk |-> disk', cache |-> projects_cache', metadata |-> metadata']

ItemOps == {"create_item", "update_item", "delete_item", "reorder_items"}

CardTodoOps ==
    {"create_file_card", "update_file_card", "delete_file_card",
     "create_todo", "update_todo", "delete_todo", "reorder_todos"}

(* C9: every successful create_item, update_item, delete_item and          *)
(* reorder_items on a project sets the project's updated_at to the         *)
(* operation's timestamp, which is not before the previous updated_at, in  *)
(* the document store (cache and file) and in the relational store.        *)
C9_ItemTouch ==
    [][last'.op \in ItemOps =>
        /\ last'.project # 0 =>
              /\ JsonProject(JsStateNext, last'.project).updated_at = clock
              /\ from_str(disk'[project_path(last'.project)].bytes).v.updated_at = clock
              /\ clock >= JsonProject(JsState, last'.project).updated_at
        /\ last'.project_db # 0 =>
              /\ DbProject(conn', last'.project_db).updated_at = clock
              /\ clock >= DbProject(conn, last'.project_db).updated_at]_vars

\* an item operation has just changed, in both stores, a project created earlier
C9_Witness ==
    /\ last.op \in ItemOps
    /\ last.project # 0 /\ last.project_db = last.project
    /\ JsonProject(JsState, last.project).created_at < clock
    /\ JsonProject(JsState, last.project).updated_at = clock
    /\ DbProject(conn, last.project).updated_at = clock

(* C10: every successful create/update/delete of a file card or a todo,    *)
(* and reorder_todos, refreshes the project's updated_at to the            *)
(* operation's timestamp.                                                  *)
C10_CardTodoTouch ==
    last.op \in CardTodoOps =>
        /\ last.project # 0 => JsonProject(JsState, last.project).updated_at = clock
        /\ last.project_db # 0 => DbProject(conn, last.project_db).updated_at = clock

---------------------------------------------------------------------------
(* The SQLite -> JSON migration (migration.rs) and the launch sequence of  *)
(* lib.rs.  sqlite_files[dir] holds the projects.db and the                *)
(* projects.db.migrated of the data and the config directory, each the     *)
(* tables of a relational store or NoDb.                                   *)

Locations == {"data", "config"}

NoDb == [open |-> FALSE]

\* INSERT OR REPLACE INTO settings
db_set_setting(c, key, value) ==
    [ok |-> TRUE, project |-> 0, c |-> [c EXCEPT !.settings = Put(@, key, value)]]

\* JsonStore::set_setting
json_set_setting(js, key, value) ==
    [ok |-> TRUE, project |-> 0,
     js |-> save_metadata([js EXCEPT !.metadata.global_settings = Put(@, key, value)])]

RECURSIVE OrderAsc(_, _)
\* rows ORDER BY field ASC (rows that tie come in id order)
OrderAsc(rows, field) ==
    IF rows = {} THEN <<>>
    ELSE LET x == CHOOSE x \in rows : \A y \in rows :
                      x[field] < y[field] \/ (x[field] = y[field] /\ x.id <= y.id)
         IN <<x>> \o OrderAsc(rows \ {x}, field)

RECURSIVE OrderDesc(_, _)
\* rows ORDER BY field DESC (rows that tie come in id order)
OrderDesc(rows, field) ==
    IF rows = {} THEN <<>>
    ELSE LET x == CHOOSE x \in rows : \A y \in rows :
                      x[field] > y[field] \/ (x[field] = y[field] /\ x.id <= y.id)
         IN <<x>> \o OrderDesc(rows \ {x}, field)

\* the buggy variant: only the first row is read
get_sqlite_projects_first_row(c) ==
    LET rows == OrderDesc(c.projects, "updated_at")
    IN IF rows = <<>> THEN rows ELSE <<Head(rows)>>

\* SELECT .. FROM projects ORDER BY updated_at DESC.  A row that fails to
\* read is skipped with a warning; the rows db.rs writes always read (it
\* binds a value to every column read as a String or an integer), so none
\* is skipped here, and likewise for the children below.
get_sqlite_projects(c) == OrderDesc(c.projects, "updated_at")

\* SELECT .. FROM items WHERE project_id = ? ORDER BY "order" ASC
get_sqlite_items(c, project_id) == OrderAsc(RowsOf(c.items, project_id), "order")

\* SELECT .. FROM todos WHERE project_id = ? ORDER BY "order" ASC
get_sqlite_todos(c, project_id) == OrderAsc(RowsOf(c.todos, project_id), "order")

\* SELECT .. FROM file_cards WHERE project_id = ? ORDER BY z_index ASC
get_sqlite_file_cards(c, project_id) ==
    LET rows == OrderAsc(RowsOf(c.file_cards, project_id), "z_index")
    IN [i \in 1..Len(rows) |-> [rows[i] EXCEPT !.is_expanded = (@ = 1)]]

\* SELECT key, value FROM settings, collected into a map
migrate_settings(c) == c.settings

\* one "- [x] content" line per todo, in order; a todo's content is
\* identified with its id
convert_todos_to_markdown(todos) ==
    LET sorted_todos == sort_by_order(todos)
    IN [i \in DOMAIN sorted_todos |->
           [checkbox |-> IF sorted_todos[i].completed THEN "[x]" ELSE "[ ]",
            content |-> sorted_todos[i].id]]

\* ProjectInfo { id, name }
ProjectInfo(project) == [id |-> project.id, name |-> project.name]

\* the ProjectData migrate_sqlite_to_json assembles for one project row
MigratedProject(c, project) ==
    ProjectDoc(project.id, project.name, get_sqlite_items(c, project.id),
               convert_todos_to_markdown(get_sqlite_todos(c, project.id)),
               get_sqlite_file_cards(c, project.id), project.created_at, project.updated_at)

\* the buggy variants of the guard: any metadata.json skips the migration /
\* nothing does
has_projects_if_exists(d) == d[metadata_path].exists

has_projects_never(d) == FALSE

\* migrate_if_needed's guard: metadata.json exists, reads, parses, and
\* project_ids or projects is not empty
has_projects(d) ==
    LET f == d[metadata_path]
        p == from_str(f.bytes)
    IN f.exists /\ p.ok /\ (p.v.project_ids # <<>> \/ p.v.projects # <<>>)

\* the projects.db migrate_if_needed picks: data_dir first, then config_dir
sqlite_path(files) ==
    IF files["data"].db.open THEN "data"
    ELSE IF files["config"].db.open THEN "config"
    ELSE "none"

\* the buggy variant: the rename is reached whatever the conversion returned
after_convert_unchecked(conv_ok) == "rename"

\* `migrate_sqlite_to_json(..)?`: an Err is returned at once, Ok goes on to
\* the rename
after_convert(conv_ok) == IF conv_ok THEN "rename" ELSE "return_err"

\* fs::write(path, bytes) = File::create then write_all; n is how far it
\* gets: -1 when the create fails, Len(bytes) when it succeeds, otherwise the
\* number of chunks that reached the file before the error
fs_write(d, path, bytes, n) ==
    IF n < 0 THEN d ELSE FileWrite(FileCreate(d, path), path, SubSeq(bytes, 1, n))

WriteOutcomes == -1..Len(to_string_pretty(NoneV))

---------------------------------------------------------------------------
(* SpecMig: launches of the application.  migrate_if_needed runs step by   *)
(* step (each read of the legacy database and each fs::write may fail),    *)
(* then JsonStore::new opens the data directory whatever the migration     *)
(* returned, a session of store operations follows, and the application    *)
(* exits.  migrate_if_needed may also be called again before the store is  *)
(* opened.  mig carries the call's position and locals, what the           *)
(* directories held when it was called (disk0, sqlite0), the outcome of    *)
(* the call it directly follows (after) and whether the conversion of the  *)
(* attempt before it failed (retry; failed between the calls).             *)

\* legacy databases as db.rs leaves them
Db1 ==
    LET c1 == db_create_project(EmptyTables, 1, "a", 0).c
        c2 == db_create_item(c1, 1, 11, "t", NoneV, NoneV, 0).c
        c3 == db_create_todo(c2, 1, 12, 0).c
        c4 == db_create_file_card(c3, 1, 13, 0).c
    IN db_set_setting(c4, "theme", "dark").c

Db2 ==
    LET c1 == db_create_project(Db1, 2, "a", 1).c
    IN db_create_item(c1, 2, 14, "t", NoneV, NoneV, 1).c

NoFiles == [db |-> NoDb, migrated |-> NoDb]

\* a data directory an earlier session of the document store has written
UsedDisk == json_create_project(json_new(EmptyDisk).js, MaxIds, "a", 0).js.disk

MInit ==
    /\ \E d \in {NoDb, EmptyTables, Db1, Db2} : \E c \in {NoDb, Db1} :
           sqlite_files = [loc \in Locations |->
                              [NoFiles EXCEPT !.db = IF loc = "data" THEN d ELSE c]]
    /\ \/ disk = EmptyDisk /\ next_id = 2
       \/ disk = json_new(EmptyDisk).js.disk /\ next_id = 2
       \/ disk = UsedDisk /\ next_id = MaxIds
    /\ metadata = NoStore
    /\ projects_cache = <<>>
    /\ conn = NoConn
    /\ clock = 0
    /\ last = NoLast
    /\ w = IdleW
    /\ thr = IdleThr
    /\ mig = IdleMig
    /\ NoReload

ZeroResult ==
    [projects_migrated |-> 0, items_migrated |-> 0, todos_migrated |-> 0,
     file_cards_migrated |-> 0, settings_migrated |-> 0]

MOthers == UNCHANGED <<conn, clock, last, w, thr, rvars>>

\* migrate_if_needed is called: the guard, then the lookup of projects.db;
\* the conversion starts by opening the database
MigCall ==
    /\ mig.pc \in {"off", "returned"}
    /\ LET loc == sqlite_path(sqlite_files)
           call == [pc |-> "returned", outcome |-> "none", conv |-> "none",
                    retry |-> IF mig.pc = "off" THEN mig.failed ELSE mig.conv = "failed",
                    after |-> IF mig.pc = "off" THEN [outcome |-> "first", projects_migrated |-> 0]
                              ELSE [outcome |-> mig.outcome,
                                    projects_migrated |-> mig.result.projects_migrated],
                    loc |-> loc, db |-> NoDb, disk0 |-> disk, sqlite0 |-> sqlite_files,
                    settings |-> <<>>, rows |-> <<>>, projects |-> <<>>, result |-> ZeroResult]
       IN mig' = IF has_projects(disk) \/ loc = "none" THEN call
                 ELSE [call EXCEPT !.pc = "settings", !.outcome = "pending",
                                   !.db = sqlite_files[loc].db]
    /\ UNCHANGED <<disk, sqlite_files, metadata, projects_cache, next_id>>
    /\ MOthers

\* migrate_settings, then get_sqlite_projects
MigRead ==
    /\ mig.pc = "settings"
    /\ mig' = [mig EXCEPT !.pc = "loop",
                          !.settings = migrate_settings(mig.db),
                          !.result.settings_migrated = Cardinality(DOMAIN migrate_settings(mig.db)),
                          !.rows = get_sqlite_projects(mig.db)]
    /\ UNCHANGED <<disk, sqlite_files, metadata, projects_cache, next_id>>
    /\ MOthers

\* a prepare or a query on the legacy database returns an error
MigReadFail ==
    /\ mig.pc = "settings" \/ (mig.pc = "loop" /\ mig.rows # <<>>)
    /\ mig' = [mig EXCEPT !.pc = "converted", !.conv = "failed"]
    /\ UNCHANGED <<disk, sqlite_files, metadata, projects_cache, next_id>>
    /\ MOthers

\* one turn of the loop over the projects: read the children, fs::write the
\* project file
MigProject(n) ==
    /\ mig.pc = "loop"
    /\ mig.rows # <<>>
    /\ LET project == Head(mig.rows)
           bytes == to_string_pretty(MigratedProject(mig.db, project))
           m1 == [mig EXCEPT !.projects = Append(@, ProjectInfo(project)),
                             !.result.items_migrated =
                                 @ + Len(get_sqlite_items(mig.db, project.id)),
                             !.result.todos_migrated =
                                 @ + Len(get_sqlite_todos(mig.db, project.id)),
                             !.result.file_cards_migrated =
                                 @ + Len(get_sqlite_file_cards(mig.db, project.id))]
       IN /\ disk' = fs_write(disk, project_path(project.id), bytes, n)
          /\ mig' = IF n = Len(bytes)
                    THEN [m1 EXCEPT !.rows = Tail(@), !.result.projects_migrated = @ + 1]
                    ELSE [m1 EXCEPT !.pc = "converted", !.conv = "failed"]
    /\ UNCHANGED <<sqlite_files, metadata, projects_cache, next_id>>
    /\ MOthers

\* after the loop: fs::write of metadata.json
MigMetadata(n) ==
    /\ mig.pc = "loop"
    /\ mig.rows = <<>>
    /\ LET bytes == to_string_pretty(MetadataDoc(<<>>, mig.projects, mig.settings))
       IN /\ disk' = fs_write(disk, metadata_path, bytes, n)
          /\ mig' = [mig EXCEPT !.pc = "converted",
                                !.conv = IF n = Len(bytes) THEN "ok" ELSE "failed"]
    /\ UNCHANGED <<sqlite_files, metadata, projects_cache, next_id>>
    /\ MOthers

\* back in migrate_if_needed: `?`, then the rename to projects.db.migrated
MigFinish(rename_ok) ==
    /\ mig.pc = "converted"
    /\ IF after_convert(mig.conv = "ok") = "rename" /\ rename_ok
       THEN /\ sqlite_files' = [sqlite_files EXCEPT ![mig.loc] = [db |-> NoDb, migrated |-> @.db]]
            /\ mig' = [mig EXCEPT !.pc = "returned", !.outcome = "migrated"]
       ELSE /\ mig' = [mig EXCEPT !.pc = "returned", !.outcome = "err"]
            /\ UNCHANGED sqlite_files
    /\ UNCHANGED <<disk, metadata, projects_cache, next_id>>
    /\ MOthers

\* lib.rs: the error is logged, JsonStore::new(data_dir).expect(..)
StoreNew ==
    /\ mig.pc = "returned"
    /\ LET r == json_new(disk)
       IN IF r.ok
          THEN /\ disk' = r.js.disk
               /\ metadata' = r.js.metadata
               /\ mig' = [pc |-> "session", failed |-> mig.conv = "failed"]
          ELSE /\ mig' = [pc |-> "off", failed |-> mig.conv = "failed"]
               /\ UNCHANGED <<disk, metadata>>
    /\ UNCHANGED <<sqlite_files, projects_cache, next_id>>
    /\ MOthers

\* the running application: store operations
SessCreateProject ==
    /\ mig.pc = "session"
    /\ next_id < MaxIds
    /\ LET r == json_create_project(JsState, next_id + 1, "a", clock)
       IN /\ disk' = r.js.disk
          /\ metadata' = r.js.metadata
          /\ projects_cache' = r.js.cache
    /\ next_id' = next_id + 1
    /\ UNCHANGED <<sqlite_files, mig, rvars>>
    /\ MOthers

SessSetSetting(key, value) ==
    /\ mig.pc = "session"
    /\ LET r == json_set_setting(JsState, key, value)
       IN /\ disk' = r.js.disk
          /\ metadata' = r.js.metadata
          /\ projects_cache' = r.js.cache
    /\ UNCHANGED <<sqlite_files, next_id, mig, rvars>>
    /\ MOthers

\* the application exits
Exit ==
    /\ mig.pc = "session"
    /\ metadata' = NoStore
    /\ projects_cache' = <<>>
    /\ mig' = [mig EXCEPT !.pc = "off"]
    /\ UNCHANGED <<disk, sqlite_files, next_id>>
    /\ MOthers

MNext ==
    \/ MigCall
    \/ MigRead
    \/ MigReadFail
    \/ \E n \in WriteOutcomes : MigProject(n)
    \/ \E n \in WriteOutcomes : MigMetadata(n)
    \/ \E rename_ok \in BOOLEAN : MigFinish(rename_ok)
    \/ StoreNew
    \/ SessCreateProject
    \/ \E value \in {"dark", "light"} : SessSetSetting("theme", value)
    \/ Exit

SpecMig == MInit /\ [][MNext]_vars

\* a call of migrate_if_needed is running or has just returned
InCall == mig.pc \in {"settings", "loop", "converted", "returned"}

\* the call went into the conversion (rather than returning Ok(None))
Attempted == InCall /\ mig.outcome # "none"

\* a projects.db was there when the call was made
LegacyDbPresent(files) == \E loc \in Locations : files[loc].db.open

\* ids of the projects a metadata.json lists
ListedIds(doc) ==
    Range(doc.project_ids) \cup {doc.projects[i].id : i \in DOMAIN doc.projects}

\* the data directory holds a metadata index that parses and lists a project
IndexListsProject(d) ==
    /\ d[metadata_path].exists
    /\ ParseOk(d[metadata_path].bytes)
    /\ ListedIds(from_str(d[metadata_path].bytes).v) # {}

(* C3: every metadata.json and projects/<id>.json on disk was put there by *)
(* a rename of its *.json.tmp file; none is written in place.              *)
C3_NoInPlaceWrite ==
    \A p \in DestPaths : disk[p].exists => disk[p].via = "rename"

(* C4: when the conversion has failed, the legacy projects.db files are    *)
(* where they were and no metadata.json written by the call lists only     *)
(* some of the projects; and the legacy file is renamed only once the      *)
(* conversion has returned success.                                        *)
C4_AbortAtomic ==
    InCall =>
        /\ mig.conv = "failed" =>
              /\ sqlite_files = mig.sqlite0
              /\ LET f == disk[metadata_path]
                 IN (f.exists /\ ParseOk(f.bytes) /\ f # mig.disk0[metadata_path]) =>
                        ListedIds(from_str(f.bytes).v) = {r.id : r \in mig.db.projects}
        /\ sqlite_files # mig.sqlite0 => mig.conv = "ok"

\* the conversion failed on the second project after the first project's
\* document was written
C4_Witness ==
    /\ mig.pc = "returned" /\ mig.outcome = "err" /\ mig.conv = "failed"
    /\ Cardinality(mig.db.projects) = 2
    /\ mig.result.projects_migrated = 1
    /\ \E id \in Ids : /\ disk[project_path(id)] # mig.disk0[project_path(id)]
                       /\ ParseOk(disk[project_path(id)].bytes)

(* C5: a call of migrate_if_needed that follows an attempt whose           *)
(* conversion failed, with a legacy projects.db still present, goes into   *)
(* the conversion again, whatever the session in between did.              *)
C5_Retry ==
    (InCall /\ mig.retry /\ LegacyDbPresent(mig.sqlite0)) => Attempted

(* C6: when migrate_if_needed returns Migrated, every project row of the   *)
(* legacy database has its projects/<id>.json with all its items, todos    *)
(* and file cards and exactly one entry in the written index, the index's  *)
(* settings equal the settings table, and the counts reported equal the    *)
(* numbers of rows.                                                        *)
C6_Complete ==
    (mig.pc = "returned" /\ mig.outcome = "migrated") =>
        LET c == mig.db
            index == from_str(disk[metadata_path].bytes)
        IN /\ index.ok
           /\ Len(index.v.projects) = Cardinality(c.projects)
           /\ index.v.global_settings = c.settings
           /\ \A row \in c.projects :
                 LET doc == from_str(disk[project_path(row.id)].bytes)
                 IN /\ Cardinality({i \in DOMAIN index.v.projects :
                                       index.v.projects[i].id = row.id}) = 1
                    /\ disk[project_path(row.id)].exists /\ doc.ok
                    /\ doc.v.id = row.id /\ doc.v.name = row.name
                    /\ doc.v.created_at = row.created_at /\ doc.v.updated_at = row.updated_at
                    /\ Range(doc.v.items) = RowsOf(c.items, row.id)
                    /\ Range(doc.v.file_cards)
                           = {[r EXCEPT !.is_expanded = (@ = 1)] : r \in RowsOf(c.file_cards, row.id)}
                    /\ {line.content : line \in Range(doc.v.todos)}
                           = {t.id : t \in RowsOf(c.todos, row.id)}
                    /\ Len(doc.v.todos) = Cardinality(RowsOf(c.todos, row.id))
           /\ mig.result = [projects_migrated |-> Cardinality(c.projects),
                            items_migrated |-> Cardinality(c.items),
                            todos_migrated |-> Cardinality(c.todos),
                            file_cards_migrated |-> Cardinality(c.file_cards),
                            settings_migrated |-> Cardinality(DOMAIN c.settings)]

\* a database of two projects with items, a todo, a file card and a setting
\* has been migrated
C6_Witness ==
    /\ mig.pc = "returned" /\ mig.outcome = "migrated"
    /\ mig.result.projects_migrated = 2 /\ mig.result.items_migrated = 2
    /\ mig.result.todos_migrated = 1 /\ mig.result.file_cards_migrated = 1
    /\ mig.result.settings_migrated = 1

(* C7: a call of migrate_if_needed made right after a call that migrated   *)
(* at least one project returns Ok(None) and leaves every file as it was.  *)
C7_NoopGuard ==
    (InCall /\ mig.after.outcome = "migrated" /\ mig.after.projects_migrated >= 1) =>
        /\ mig.pc = "returned" /\ mig.outcome = "none"
        /\ disk = mig.disk0
        /\ sqlite_files = mig.sqlite0

\* the second call has returned while another legacy database is still there
C7_Witness ==
    /\ mig.pc = "returned" /\ mig.outcome = "none"
    /\ mig.after.outcome = "migrated" /\ mig.after.projects_migrated >= 1
    /\ LegacyDbPresent(sqlite_files)
    /\ sqlite_files["data"].migrated.open

(* C8 as stated: the conversion is performed exactly when a legacy         *)
(* projects.db exists and no metadata.json is present, and a metadata.json *)
(* that is present is never overwritten.                                   *)
C8_TriggerNoIndexFile ==
    InCall =>
        /\ Attempted <=> (LegacyDbPresent(mig.sqlite0) /\ ~mig.disk0[metadata_path].exists)
        /\ mig.disk0[metadata_path].exists => disk[metadata_path] = mig.disk0[metadata_path]

(* C8, amended: the conversion is performed exactly when a legacy          *)
(* projects.db exists and the data directory holds no metadata.json that   *)
(* parses and lists a project; a metadata.json that lists a project is     *)
(* never overwritten.                                                      *)
C8_Trigger ==
    InCall =>
        /\ Attempted <=> (LegacyDbPresent(mig.sqlite0) /\ ~IndexListsProject(mig.disk0))
        /\ IndexListsProject(mig.disk0) => disk[metadata_path] = mig.disk0[metadata_path]

\* a migration has replaced a metadata.json that listed no project
C8_Witness ==
    /\ mig.pc = "returned" /\ mig.outcome = "migrated"
    /\ mig.disk0[metadata_path].exists
    /\ disk[metadata_path] # mig.disk0[metadata_path]

(***************************************************************************)
(* SpecItem: one project and one item, in both stores in lockstep;         *)
(* update_item called with every combination of its optional arguments.    *)
(***************************************************************************)

\* Option<&str> at creation, Option<Option<&str>> at update
OptStr == {NoneV, Some("foo"), Some("bar")}

OptOptStr == {NoneV, Some(NoneV), Some(Some(""))} \cup {Some(x) : x \in OptStr \ {NoneV}}

IInit ==
    /\ LET js == json_create_project(json_new(EmptyDisk).js, 1, "a", 0).js
       IN /\ disk = js.disk
          /\ metadata = js.metadata
          /\ projects_cache = js.cache
    /\ conn = db_create_project(EmptyTables, 1, "a", 0).c
    /\ sqlite_files = <<>>
    /\ clock = 0
    /\ next_id = 1
    /\ last = NoLast
    /\ w = IdleW
    /\ thr = IdleThr
    /\ mig = IdleMig
    /\ NoReload

\* the stored item as each store reads it back
JsonItem(js, id) ==
    LET r == scan_projects(js, js.metadata.project_ids, "items", id)
    IN r.data.items[IndexOfId(r.data.items, id)]

DbItem(c, id) == RowById(c.items, id)

IApply(rj, rd, l) ==
    /\ disk' = rj.js.disk
    /\ projects_cache' = rj.js.cache
    /\ metadata' = rj.js.metadata
    /\ conn' = rd.c
    /\ last' = l
    /\ UNCHANGED <<sqlite_files, clock, w, thr, mig, rvars>>

ICreateItem(coding_agent_args, coding_agent_env) ==
    /\ next_id = 1
    /\ next_id' = 2
    /\ IApply(json_create_item(JsState, 1, 2, "t", coding_agent_args, coding_agent_env, clock),
              db_create_item(conn, 1, 2, "t", coding_agent_args, coding_agent_env, clock),
              [op |-> "create_item"])

IUpdateItem(title, coding_agent_args, coding_agent_env, order) ==
    /\ next_id = 2
    /\ UNCHANGED next_id
    /\ IApply(json_update_item(JsState, 2, title, coding_agent_args, coding_agent_env, order, clock),
              db_update_item(conn, 2, title, coding_agent_args, coding_agent_env, order, clock),
              [op |-> "update_item", title |-> title,
               coding_agent_args |-> coding_agent_args,
               coding_agent_env |-> coding_agent_env, order |-> order,
               before |-> JsonItem(JsState, 2), before_db |-> DbItem(conn, 2)])

INext ==
    \/ Tick
    \/ \E a \in OptStr : \E e \in OptStr : ICreateItem(a, e)
    \/ \E title \in {NoneV, Some("u")} : \E a \in OptOptStr : \E e \in OptOptStr :
           \E order \in OptOrder : IUpdateItem(title, a, e, order)

SpecItem == IInit /\ [][INext]_vars

\* what the three-state contract asks of a stored field, given the field
\* before and the argument; an explicit null is left open when null_clears
\* is FALSE
Contract(before, arg, after, null_clears) ==
    /\ ~arg.some => after = before
    /\ arg = Some(Some("")) => after = NoneV
    /\ (arg.some /\ arg.v.some /\ arg.v.v # "") => after = Some(arg.v.v)
    /\ (null_clears /\ arg = Some(NoneV)) => after = NoneV

(* C11: in the document store, for an item whose coding_agent_args (or     *)
(* coding_agent_env) is "foo", update_item with the field not provided     *)
(* leaves it "foo", with the empty string makes it absent, and with a      *)
(* non-empty string makes it that string.                                  *)
C11_JsonThreeState ==
    last.op = "update_item" =>
        /\ last.before.coding_agent_args = Some("foo") =>
               Contract(last.before.coding_agent_args, last.coding_agent_args,
                        JsonItem(JsState, 2).coding_agent_args, FALSE)
        /\ last.before.coding_agent_env = Some("foo") =>
               Contract(last.before.coding_agent_env, last.coding_agent_env,
                        JsonItem(JsState, 2).coding_agent_env, FALSE)

(* C12: in the relational store, update_item keeps coding_agent_args and   *)
(* coding_agent_env when the field is not provided, makes it absent when   *)
(* it is provided as the empty string or as an explicit null, and sets it  *)
(* when it is provided non-empty; title and order keep their values when   *)
(* they are not supplied.                                                  *)
C12_DbThreeState ==
    last.op = "update_item" =>
        /\ Contract(last.before_db.coding_agent_args, last.coding_agent_args,
                    DbItem(conn, 2).coding_agent_args, TRUE)
        /\ Contract(last.before_db.coding_agent_env, last.coding_agent_env,
                    DbItem(conn, 2).coding_agent_env, TRUE)
        /\ ~last.title.some => DbItem(conn, 2).title = last.before_db.title
        /\ ~last.order.some => DbItem(conn, 2).order = last.before_db.order
        /\ ~last.coding_agent_args.some /\ ~last.coding_agent_env.some
               /\ ~last.title.some /\ ~last.order.some =>
               [DbItem(conn, 2) EXCEPT !.updated_at = 0] =
                   [last.before_db EXCEPT !.updated_at = 0]

\* an item whose coding_agent_args was "foo" has been updated with the
\* empty string and with no title, and reads back without the field and
\* with its title
C12_Witness ==
    /\ last.op = "update_item"
    /\ last.before_db.coding_agent_args = Some("foo")
    /\ last.coding_agent_args = Some(Some(""))
    /\ ~last.title.some
    /\ DbItem(conn, 2).coding_agent_args = NoneV
    /\ DbItem(conn, 2).title = "t"

(***************************************************************************)
(* SpecOrder: one project; its items and file cards are created, deleted,  *)
(* given an order and reordered, in both stores in lockstep.  The clock    *)
(* stands still: no property of this specification reads a timestamp.      *)
(***************************************************************************)

MaxChildren == 3

ChildRange == 2..(1 + MaxChildren)

\* get_project_by_id(..).items in each store
json_get_items(js, project_id) == load_project(js, project_id).data.items

db_get_items(c, project_id) == OrderAsc(RowsOf(c.items, project_id), "order")

\* the order / z_index a child of the project has in the document store
\* (-1: no such child)
ChildCounter(js, kind, id) ==
    LET s == load_project(js, 1).data[kind]
        field == IF kind = "items" THEN "order" ELSE "z_index"
    IN IF IndexOfId(s, id) = 0 THEN -1 ELSE s[IndexOfId(s, id)][field]

OCreate(kind) ==
    /\ next_id < 1 + MaxChildren
    /\ next_id' = next_id + 1
    /\ IF kind = "items"
       THEN IApply(json_create_item(JsState, 1, next_id + 1, "t", NoneV, NoneV, clock),
                   db_create_item(conn, 1, next_id + 1, "t", NoneV, NoneV, clock),
                   [op |-> "create", kind |-> kind, id |-> next_id + 1])
       ELSE IApply(json_create_file_card(JsState, 1, next_id + 1, clock),
                   db_create_file_card(conn, 1, next_id + 1, clock),
                   [op |-> "create", kind |-> kind, id |-> next_id + 1])

ODelete(kind, id) ==
    /\ ChildCounter(JsState, kind, id) >= 0
    /\ UNCHANGED next_id
    /\ IF kind = "items"
       THEN IApply(json_delete_item(JsState, id, clock), db_delete_item(conn, id, clock),
                   [op |-> "delete", kind |-> kind,
                    counter |-> ChildCounter(JsState, kind, id),
                    counter_db |-> RowById(conn.items, id).order])
       ELSE IApply(json_delete_file_card(JsState, id), db_delete_file_card(conn, id),
                   [op |-> "delete", kind |-> kind,
                    counter |-> ChildCounter(JsState, kind, id),
                    counter_db |-> RowById(conn.file_cards, id).z_index])

OUpdateItem(id, order) ==
    /\ ChildCounter(JsState, "items", id) >= 0
    /\ UNCHANGED next_id
    /\ IApply(json_update_item(JsState, id, NoneV, NoneV, NoneV, order, clock),
              db_update_item(conn, id, NoneV, NoneV, NoneV, order, clock),
              [op |-> "update_item"])

OReorderItems(item_ids) ==
    /\ UNCHANGED next_id
    /\ IApply(json_reorder_items(JsState, 1, item_ids, clock),
              db_reorder_items(conn, 1, item_ids, clock),
              [op |-> "reorder_items", item_ids |-> item_ids,
               before |-> json_get_items(JsState, 1)])

ONext ==
    \/ \E kind \in {"items", "file_cards"} : OCreate(kind)
    \/ \E kind \in {"items", "file_cards"} : \E id \in ChildRange : ODelete(kind, id)
    \/ \E id \in ChildRange : \E order \in OptOrder \ {NoneV} : OUpdateItem(id, order)
    \/ \E item_ids \in UNION {[1..n -> ChildRange] : n \in 0..MaxChildren} :
           OReorderItems(item_ids)

SpecOrder == IInit /\ [][ONext]_vars

\* the ids / the order values of a sequence of records, in sequence
IdsOf(s) == [i \in 1..Len(s) |-> s[i].id]

OrdersOf(s) == [i \in 1..Len(s) |-> s[i].order]

\* item_ids names each of the project's items once, and there are three
NamesAllThree(item_ids, items) ==
    /\ Len(item_ids) = 3
    /\ Len(items) = 3
    /\ Range(item_ids) = Range(IdsOf(items))

(* C13: for a project whose items are exactly a, b, c, in any prior order  *)
(* and with any prior order values, after reorder_items(P, [a,b,c])        *)
(* reading P's items returns a, b, c in that sequence with order values    *)
(* 0, 1, 2, in both stores.                                                *)
C13_ReorderResult ==
    (last.op = "reorder_items" /\ NamesAllThree(last.item_ids, last.before)) =>
        /\ IdsOf(json_get_items(JsState, 1)) = last.item_ids
        /\ OrdersOf(json_get_items(JsState, 1)) = <<0, 1, 2>>
        /\ IdsOf(db_get_items(conn, 1)) = last.item_ids
        /\ OrdersOf(db_get_items(conn, 1)) = <<0, 1, 2>>

\* three items that were stored in another sequence, two of them with the
\* same order value, have been reordered
C13_Witness ==
    /\ last.op = "reorder_items"
    /\ NamesAllThree(last.item_ids, last.before)
    /\ IdsOf(last.before) # last.item_ids
    /\ Cardinality(Range(OrdersOf(last.before))) = 2
    /\ IdsOf(json_get_items(JsState, 1)) = last.item_ids
    /\ IdsOf(db_get_items(conn, 1)) = last.item_ids

(* C14: after any reorder_items(P, ids), whatever the id list (some of     *)
(* P's items only, an id repeated, ids not in P), the order values of P's  *)
(* N items are exactly 0..N-1, with no duplicates, in both stores.         *)
C14_ReorderDense ==
    last.op = "reorder_items" =>
        LET n == Len(json_get_items(JsState, 1))
        IN /\ Range(OrdersOf(json_get_items(JsState, 1))) = 0..(n - 1)
           /\ Range(OrdersOf(db_get_items(conn, 1))) = 0..(n - 1)

(* C15: the order given to a newly created item, and the z_index given to  *)
(* a newly created file card, is never a value that a since-deleted        *)
(* sibling had: here, the sibling deleted by the call just before.         *)
C15_NoCounterReuse ==
    [][(last.op = "delete" /\ last'.op = "create" /\ last'.kind = last.kind) =>
          /\ ChildCounter(JsStateNext, last'.kind, last'.id) # last.counter
          /\ (IF last'.kind = "items" THEN RowById(conn'.items, last'.id).order
              ELSE RowById(conn'.file_cards, last'.id).z_index) # last.counter_db]_vars

(***************************************************************************)
(* SpecTodo: one project and one todo, in both stores in lockstep;         *)
(* update_todo called with every combination of completed and order while  *)
(* the clock advances.                                                     *)
(***************************************************************************)

JsonTodo(js, id) ==
    LET r == scan_projects(js, js.metadata.project_ids, "todos", id)
    IN r.data.todos[IndexOfId(r.data.todos, id)]

DbTodo(c, id) == RowById(c.todos, id)

\* the clock advances between two calls; last keeps the last call
TTick ==
    /\ clock < MaxClock
    /\ clock' = clock + 1
    /\ UNCHANGED <<disk, sqlite_files, metadata, projects_cache, conn, next_id, last, w, thr, mig, rvars>>

TCreateTodo ==
    /\ next_id = 1
    /\ next_id' = 2
    /\ IApply(json_create_todo(JsState, 1, 2, clock), db_create_todo(conn, 1, 2, clock),
              [op |-> "create_todo", original |-> NoneV])

\* last.original: the completed_at the todo was given the first time it was
\* completed
TUpdateTodo(completed, order) ==
    /\ next_id = 2
    /\ UNCHANGED next_id
    /\ LET rj == json_update_todo(JsState, 2, completed, order, clock)
           rd == db_update_todo(conn, 2, completed, order, clock)
       IN IApply(rj, rd,
                 [op |-> "update_todo", completed |-> completed, order |-> order, at |-> clock,
                  before |-> JsonTodo(JsState, 2), before_db |-> DbTodo(conn, 2),
                  original |-> IF last.original.some THEN last.original
                               ELSE JsonTodo(rj.js, 2).completed_at])

TNext ==
    \/ TTick
    \/ TCreateTodo
    \/ \E completed \in OptBool : \E order \in OptOrder : TUpdateTodo(completed, order)

SpecTodo == IInit /\ [][TNext]_vars

(* C16: update_todo(completed = true) on a todo that is not completed sets *)
(* completed_at to the time of that call, also when the todo had been      *)
(* completed and reopened before; update_todo(completed = false) sets      *)
(* completed_at to None.  In both stores.                                  *)
C16_CompletionStamp ==
    last.op = "update_todo" =>
        /\ (last.completed = Some(TRUE) /\ ~last.before.completed) =>
               JsonTodo(JsState, 2).completed_at = Some(last.at)
        /\ (last.completed = Some(TRUE) /\ ~last.before_db.completed) =>
               DbTodo(conn, 2).completed_at = Some(last.at)
        /\ last.completed = Some(FALSE) =>
               /\ JsonTodo(JsState, 2).completed_at = NoneV
               /\ DbTodo(conn, 2).completed_at = NoneV

\* a todo that was completed, reopened and, later, completed again carries
\* the time of the later call, which is not its first completion time
C16_Witness ==
    /\ last.op = "update_todo"
    /\ last.completed = Some(TRUE)
    /\ ~last.before.completed
    /\ last.before.completed_at = NoneV
    /\ last.original.some
    /\ last.original.v < last.at
    /\ JsonTodo(JsState, 2).completed_at = Some(last.at)
    /\ DbTodo(conn, 2).completed_at = Some(last.at)

(* C17: update_todo on a todo that is already completed, passing           *)
(* completed = true or no completed at all, leaves completed_at as it was, *)
(* in both stores.                                                         *)
C17_StampOnlyOnTransition ==
    (last.op = "update_todo" /\ last.completed # Some(FALSE)) =>
        /\ last.before.completed =>
               JsonTodo(JsState, 2).completed_at = last.before.completed_at
        /\ last.before_db.completed =>
               DbTodo(conn, 2).completed_at = last.before_db.completed_at

\* a completed todo has been updated at a later time with completed = true
\* and a new order, and kept its completed_at
C17_Witness ==
    /\ last.op = "update_todo"
    /\ last.completed = Some(TRUE)
    /\ last.order.some
    /\ last.before_db.completed
    /\ last.before_db.completed_at.some
    /\ last.before_db.completed_at.v < last.at
    /\ DbTodo(conn, 2).completed_at = last.before_db.completed_at
    /\ JsonTodo(JsState, 2).completed_at = last.before.completed_at

(* C40: after any sequence of create_todo and update_todo calls the todo   *)
(* is completed exactly when it has a completed_at, in both stores.        *)
C40_CompletedIffStamped ==
    next_id = 2 =>
        /\ JsonTodo(JsState, 2).completed <=> JsonTodo(JsState, 2).completed_at.some
        /\ DbTodo(conn, 2).completed <=> DbTodo(conn, 2).completed_at.some

\* a todo that had been completed has been reopened: it is not completed
\* and has no completed_at, in both stores
C40_Witness ==
    /\ last.op = "update_todo"
    /\ last.completed = Some(FALSE)
    /\ last.before.completed /\ last.before.completed_at.some
    /\ last.before_db.completed /\ last.before_db.completed_at.some
    /\ ~JsonTodo(JsState, 2).completed /\ ~JsonTodo(JsState, 2).completed_at.some
    /\ ~DbTodo(conn, 2).completed /\ ~DbTodo(conn, 2).completed_at.some

(***************************************************************************)
(* The list calls for a project's children, and delete_project in Spec.    *)
(***************************************************************************)

RECURSIVE sort_by_key(_, _)
\* Vec::sort_by_key(|x| x.<field>): a stable sort
sort_by_key(s, field) ==
    IF s = <<>> THEN <<>>
    ELSE LET rest == sort_by_key(Tail(s), field)
             x == Head(s)
         IN SelectSeq(rest, LAMBDA y : y[field] < x[field]) \o <<x>>
                \o SelectSeq(rest, LAMBDA y : y[field] >= x[field])

\* Err when load_project fails, else the sorted children
json_get_file_cards_by_project(js, project_id) ==
    LET r == load_project(js, project_id)
    IN IF ~r.ok THEN [ok |-> FALSE, v |-> <<>>]
       ELSE [ok |-> TRUE, v |-> sort_by_key(r.data.file_cards, "z_index")]

json_get_todos_by_project(js, project_id) ==
    LET r == load_project(js, project_id)
    IN IF ~r.ok THEN [ok |-> FALSE, v |-> <<>>]
       ELSE [ok |-> TRUE, v |-> sort_by_key(r.data.todos, "order")]

db_get_file_cards_by_project(c, project_id) ==
    [ok |-> TRUE, v |-> OrderAsc(RowsOf(c.file_cards, project_id), "z_index")]

db_get_todos_by_project(c, project_id) ==
    [ok |-> TRUE, v |-> OrderAsc(RowsOf(c.todos, project_id), "order")]

\* the step is a delete_project(p) that returned true in both stores
DeletedProject(p) ==
    /\ p \in Range(metadata.project_ids)
    /\ p \notin Range(metadata'.project_ids)
    /\ HasId(conn.projects, p)
    /\ ~HasId(conn'.projects, p)

\* no child of project p is left in the documents the store lists, in its
\* cache, in a file of p, or in the tables
NoChildLeft(js, c, p) ==
    /\ \A q \in Range(js.metadata.project_ids) \cup DOMAIN js.cache \cup {p} :
           LET r == load_project(js, q)
           IN r.ok => \A kind \in {"items", "file_cards", "todos"} :
                          \A i \in 1..Len(r.data[kind]) : r.data[kind][i].project_id # p
    /\ RowsOf(c.items, p) = {}
    /\ RowsOf(c.file_cards, p) = {}
    /\ RowsOf(c.todos, p) = {}

(* C18: after delete_project(P) returned true, no item, file card or todo  *)
(* of P remains in either store, and get_file_cards_by_project(P) and      *)
(* get_todos_by_project(P) return an empty list in both stores.            *)
C18_CascadeDelete ==
    [][\A p \in Ids : DeletedProject(p) =>
          /\ NoChildLeft(JsStateNext, conn', p)
          /\ db_get_file_cards_by_project(conn', p) = [ok |-> TRUE, v |-> <<>>]
          /\ db_get_todos_by_project(conn', p) = [ok |-> TRUE, v |-> <<>>]
          /\ json_get_file_cards_by_project(JsStateNext, p) = [ok |-> TRUE, v |-> <<>>]
          /\ json_get_todos_by_project(JsStateNext, p) = [ok |-> TRUE, v |-> <<>>]]_vars

(***************************************************************************)
(* import_data in both stores, and SpecImport: one project with up to      *)
(* MaxChildren items and file cards, then one import of an envelope.       *)
(***************************************************************************)

ZeroImportResult ==
    [projects_imported |-> 0, items_imported |-> 0, file_cards_imported |-> 0, skipped |-> 0]

\* the variant that deletes nothing before a "replace" import
json_delete_all_skipped(js, existing_ids) == js

RECURSIVE json_delete_all(_, _)
\* mode == "replace": for id in existing_ids { self.delete_project(&id)?; }
json_delete_all(js, existing_ids) ==
    IF existing_ids = <<>> THEN js
    ELSE json_delete_all(json_delete_project(js, Head(existing_ids)).js, Tail(existing_ids))

\* FileCard { .., is_expanded: c.is_expanded == 1, .. } for each row
FileCardsFromRows(rows) == [i \in 1..Len(rows) |-> [rows[i] EXCEPT !.is_expanded = (@ = 1)]]

\* the variant that exports every card as not expanded
FileCardRows_never_expanded(cards) == [i \in 1..Len(cards) |-> [cards[i] EXCEPT !.is_expanded = 0]]

\* FileCardRow { .., is_expanded: if card.is_expanded { 1 } else { 0 }, .. }
FileCardRows(cards) ==
    [i \in 1..Len(cards) |-> [cards[i] EXCEPT !.is_expanded = IF @ THEN 1 ELSE 0]]

RECURSIVE json_export_projects(_, _, _)
\* for id in &ids_to_export: a project that loads adds its row, its items
\* and its file cards as rows; one that does not load is left out
json_export_projects(js, ids, data) ==
    IF ids = <<>> THEN data
    ELSE LET r == load_project(js, Head(ids))
             row == [id |-> r.data.id, name |-> r.data.name,
                     created_at |-> r.data.created_at, updated_at |-> r.data.updated_at]
         IN IF ~r.ok THEN json_export_projects(js, Tail(ids), data)
            ELSE json_export_projects(r.js, Tail(ids),
                     [data EXCEPT !.projects = Append(@, row),
                                  !.items = @ \o r.data.items,
                                  !.file_cards = Some(@.v \o FileCardRows(r.data.file_cards))])

\* export_all_data(project_ids); exported_at is left out of the envelope
json_export_all_data(js, project_ids) ==
    json_export_projects(js, IF project_ids.some THEN project_ids.v ELSE js.metadata.project_ids,
                         [projects |-> <<>>, items |-> <<>>, file_cards |-> Some(<<>>)])

RECURSIVE json_import_projects(_, _, _, _)
\* for project_row in &data.projects: a listed id is skipped; else the
\* document is built from the row and the envelope's items and cards of
\* that project, saved, and its id pushed onto project_ids
json_import_projects(js, rows, data, res) ==
    IF rows = <<>> THEN [js |-> js, res |-> res]
    ELSE LET project_row == Head(rows)
             project_items == SelectSeq(data.items, LAMBDA i : i.project_id = project_row.id)
             project_file_cards ==
                 IF data.file_cards.some
                 THEN FileCardsFromRows(
                          SelectSeq(data.file_cards.v, LAMBDA c : c.project_id = project_row.id))
                 ELSE <<>>
             project_data == ProjectDoc(project_row.id, project_row.name, project_items, <<>>,
                                        project_file_cards, project_row.created_at,
                                        project_row.updated_at)
             js1 == [save_project(js, project_data)
                        EXCEPT !.metadata.project_ids = Append(@, project_row.id)]
         IN IF project_row.id \in Range(js.metadata.project_ids)
            THEN json_import_projects(js, Tail(rows), data, [res EXCEPT !.skipped = @ + 1])
            ELSE json_import_projects(js1, Tail(rows), data,
                     [res EXCEPT !.projects_imported = @ + 1,
                                 !.items_imported = @ + Len(project_items),
                                 !.file_cards_imported = @ + Len(project_file_cards)])

json_import_data(js, data, mode) ==
    LET js0 == IF mode = "replace" THEN json_delete_all(js, js.metadata.project_ids) ELSE js
        r == json_import_projects(js0, data.projects, data, ZeroImportResult)
    IN [ok |-> TRUE, js |-> save_metadata(r.js), result |-> r.res]

RECURSIVE db_import_projects(_, _, _)
\* SELECT id FROM projects WHERE id = ?: skipped, or INSERT INTO projects
db_import_projects(c, rows, res) ==
    IF rows = <<>> THEN [c |-> c, res |-> res]
    ELSE IF HasId(c.projects, Head(rows).id)
         THEN db_import_projects(c, Tail(rows), [res EXCEPT !.skipped = @ + 1])
         ELSE db_import_projects([c EXCEPT !.projects = @ \cup {Head(rows)}], Tail(rows),
                                 [res EXCEPT !.projects_imported = @ + 1])

RECURSIVE db_import_children_any_parent(_, _, _, _, _)
\* the variant that does not look for the row's project
db_import_children_any_parent(c, rows, table, counter, res) ==
    IF rows = <<>> THEN [c |-> c, res |-> res]
    ELSE IF HasId(c[table], Head(rows).id)
         THEN db_import_children_any_parent(c, Tail(rows), table, counter,
                                            [res EXCEPT !.skipped = @ + 1])
         ELSE db_import_children_any_parent([c EXCEPT ![table] = @ \cup {Head(rows)}],
                                            Tail(rows), table, counter,
                                            [res EXCEPT ![counter] = @ + 1])

RECURSIVE db_import_children(_, _, _, _, _)
\* the loops over data.items and over data.file_cards: a row whose id is
\* in the table, or whose project is not in projects, is skipped
db_import_children(c, rows, table, counter, res) ==
    IF rows = <<>> THEN [c |-> c, res |-> res]
    ELSE IF HasId(c[table], Head(rows).id) \/ ~HasId(c.projects, Head(rows).project_id)
         THEN db_import_children(c, Tail(rows), table, counter, [res EXCEPT !.skipped = @ + 1])
         ELSE db_import_children([c EXCEPT ![table] = @ \cup {Head(rows)}], Tail(rows),
                                 table, counter, [res EXCEPT ![counter] = @ + 1])

db_import_data(c, data, mode) ==
    LET c0 == IF mode = "replace"
              THEN [c EXCEPT !.file_cards = {}, !.items = {}, !.projects = {}, !.todos = {}]
              ELSE c
        r1 == db_import_projects(c0, data.projects, ZeroImportResult)
        r2 == db_import_children(r1.c, data.items, "items", "items_imported", r1.res)
        r3 == IF data.file_cards.some
              THEN db_import_children(r2.c, data.file_cards.v, "file_cards",
                                      "file_cards_imported", r2.res)
              ELSE r2
    IN [ok |-> TRUE, c |-> r3.c, result |-> r3.res]

\* the envelopes: project rows with the id of the stored project or a new
\* one; items and cards with the id of the first stored child or a new one,
\* of one of those projects or of none (0)
ImportEnvelopes ==
    LET project_ids == {1, MaxIds}
        child_ids == {2, MaxChildren + 2}
        SeqsUpTo(S, n) == UNION {[1..k -> S] : k \in 0..n}
        rows == {[id |-> id, name |-> "imported", created_at |-> 0, updated_at |-> 0] :
                    id \in project_ids}
        items == {[id |-> id, project_id |-> pid, title |-> "imported",
                   coding_agent_args |-> NoneV, coding_agent_env |-> NoneV,
                   order |-> 0, updated_at |-> 0] :
                     id \in child_ids, pid \in project_ids \cup {0}}
        cards == {[id |-> 2, project_id |-> pid, is_expanded |-> e, z_index |-> 0,
                   updated_at |-> 0] : pid \in project_ids, e \in {0, 1}}
    IN {[projects |-> ps, items |-> is, file_cards |-> cs] :
           ps \in SeqsUpTo(rows, 2), is \in SeqsUpTo(items, 2),
           cs \in {NoneV} \cup {Some(<<c>>) : c \in cards}}

\* the import is the last call of a behaviour
PCreate(kind) ==
    /\ last.op \notin {"import_data", "round_trip"}
    /\ OCreate(kind)

PImportData(data, mode) ==
    /\ last.op \notin {"import_data", "round_trip"}
    /\ UNCHANGED next_id
    /\ LET rj == json_import_data(JsState, data, mode)
           rd == db_import_data(conn, data, mode)
       IN IApply(rj, rd, [op |-> "import_data", data |-> data, mode |-> mode,
                          result |-> rj.result, result_db |-> rd.result,
                          before |-> JsState, before_db |-> conn])

\* export_all_data(None) of the document store, then import_data of that
\* envelope in merge mode into a new store on an empty directory; the
\* store itself is only read
PRoundTrip ==
    /\ last.op # "round_trip"
    /\ LET data == json_export_all_data(JsState, NoneV)
           r == json_import_data(json_new(EmptyDisk).js, data, "merge")
       IN last' = [op |-> "round_trip", data |-> data, result |-> r.result, js |-> r.js]
    /\ UNCHANGED <<disk, sqlite_files, metadata, projects_cache, conn, clock, next_id, w, thr, mig, rvars>>

PNext ==
    \/ PRoundTrip
    \/ \E kind \in {"items", "file_cards"} : PCreate(kind)
    \/ \E data \in ImportEnvelopes : \E mode \in {"merge", "replace"} : PImportData(data, mode)

SpecImport == IInit /\ [][PNext]_vars

\* every stored record of a kind, over the documents the store lists
RECURSIVE StoredIn(_, _, _)
StoredIn(js, project_ids, kind) ==
    IF project_ids = <<>> THEN <<>>
    ELSE LET r == load_project(js, Head(project_ids))
         IN (IF r.ok THEN r.data[kind] ELSE <<>>) \o StoredIn(js, Tail(project_ids), kind)

Stored(js, kind) == StoredIn(js, js.metadata.project_ids, kind)

EnvelopeCards(data) == IF data.file_cards.some THEN data.file_cards.v ELSE <<>>

EnvelopeSize(data) == Len(data.projects) + Len(data.items) + Len(EnvelopeCards(data))

Imported(res) == res.projects_imported + res.items_imported + res.file_cards_imported

(* C19: in the document store, import_data in merge mode counts in skipped *)
(* every project, item and card of the envelope that it does not import;   *)
(* an envelope with one project whose id exists and one item whose         *)
(* project_id matches no known project gives skipped = 2 and imports       *)
(* nothing, and the store is left as it was.                               *)
C19_JsonImportSkipped ==
    (last.op = "import_data" /\ last.mode = "merge") =>
        /\ last.result.skipped = EnvelopeSize(last.data) - Imported(last.result)
        /\ (/\ Len(last.data.projects) = 1
            /\ last.data.projects[1].id \in Range(last.before.metadata.project_ids)
            /\ Len(last.data.items) = 1
            /\ last.data.items[1].project_id \notin Range(last.before.metadata.project_ids)
            /\ EnvelopeCards(last.data) = <<>>)
           => /\ last.result = [ZeroImportResult EXCEPT !.skipped = 2]
              /\ JsState.disk = last.before.disk

\* the ids some sequence of records holds more than once
Repeated(s) == {s[i].id : i \in {j \in 1..Len(s) : \E k \in 1..Len(s) : k # j /\ s[k].id = s[j].id}}

\* the records of an envelope whose id was stored before the import
Collisions(data, projects, items, cards) ==
    Cardinality({i \in 1..Len(data.projects) : data.projects[i].id \in projects})
    + Cardinality({i \in 1..Len(data.items) : data.items[i].id \in items})
    + Cardinality({i \in 1..Len(EnvelopeCards(data)) : EnvelopeCards(data)[i].id \in cards})

(* C20: after import_data in merge mode, in both stores, every project,    *)
(* item and file card stored before is unchanged, no two stored records of *)
(* one kind share an id, and every envelope record whose id was stored     *)
(* before is counted in skipped.                                           *)
C20_ImportNoOverwrite ==
    (last.op = "import_data" /\ last.mode = "merge") =>
        /\ \A p \in Range(last.before.metadata.project_ids) :
               /\ p \in Range(metadata.project_ids)
               /\ load_project(JsState, p).data = load_project(last.before, p).data
        /\ last.before_db.projects \subseteq conn.projects
        /\ last.before_db.items \subseteq conn.items
        /\ last.before_db.file_cards \subseteq conn.file_cards
        /\ \A kind \in {"items", "file_cards"} :
               /\ Repeated(Stored(JsState, kind)) = {}
               /\ \A r1 \in conn[kind] : \A r2 \in conn[kind] : r1.id = r2.id => r1 = r2
        /\ last.result.skipped >=
               Collisions(last.data, Range(last.before.metadata.project_ids),
                          Range(IdsOf(Stored(last.before, "items"))),
                          Range(IdsOf(Stored(last.before, "file_cards"))))
        /\ last.result_db.skipped >=
               Collisions(last.data, {r.id : r \in last.before_db.projects},
                          {r.id : r \in last.before_db.items},
                          {r.id : r \in last.before_db.file_cards})

(* C21: import_data(data, "replace") first removes every stored project    *)
(* with its children, so that when it returns Ok the stored project ids    *)
(* are the distinct project ids of the envelope, and a project stored      *)
(* before remains only if the envelope contains it; in both stores.        *)
C21_ImportReplace ==
    (last.op = "import_data" /\ last.mode = "replace") =>
        LET envelope_ids == Range(IdsOf(last.data.projects))
        IN /\ Range(metadata.project_ids) = envelope_ids
           /\ {r.id : r \in conn.projects} = envelope_ids
           /\ \A p \in Range(last.before.metadata.project_ids) \ envelope_ids :
                  /\ ~load_project(JsState, p).ok
                  /\ NoChildLeft(JsState, conn, p)
           /\ \A p \in envelope_ids :
                  /\ load_project(JsState, p).ok
                  /\ load_project(JsState, p).data.name = "imported"
                  /\ RowById(conn.projects, p).name = "imported"

\* a store whose project had an item has taken a "replace" import of an
\* envelope with another project only
C21_Witness ==
    /\ last.op = "import_data"
    /\ last.mode = "replace"
    /\ last.before_db.items # {}
    /\ Stored(last.before, "items") # <<>>
    /\ IdsOf(last.data.projects) = <<MaxIds>>
    /\ metadata.project_ids = <<MaxIds>>
    /\ {r.id : r \in conn.projects} = {MaxIds}
    /\ ~disk[project_path(1)].exists

\* the documents of a store without their todos, by project id in index
\* order
DocsOf(js) ==
    [i \in 1..Len(js.metadata.project_ids) |->
        [load_project(js, js.metadata.project_ids[i]).data EXCEPT !.todos = <<>>]]

(* C22: export_all_data(None) followed by import_data of that envelope in  *)
(* merge mode into an empty document store gives a store with the same     *)
(* projects, items and file cards (all fields, in the same sequence), and   *)
(* a result that counts every one of them and skips none.                  *)
C22_RoundTrip ==
    last.op = "round_trip" =>
        /\ last.js.metadata.project_ids = metadata.project_ids
        /\ DocsOf(last.js) = DocsOf(JsState)
        /\ last.result.projects_imported = Len(metadata.project_ids)
        /\ last.result.items_imported = Len(Stored(JsState, "items"))
        /\ last.result.file_cards_imported = Len(Stored(JsState, "file_cards"))
        /\ last.result.skipped = 0

\* a store with two projects, an item and an expanded file card has made
\* the round trip
C22_Witness ==
    /\ last.op = "round_trip"
    /\ Len(metadata.project_ids) = 2
    /\ Stored(JsState, "items") # <<>>
    /\ \E i \in 1..Len(Stored(JsState, "file_cards")) : Stored(JsState, "file_cards")[i].is_expanded
    /\ Stored(last.js, "file_cards") = Stored(JsState, "file_cards")
    /\ last.result.projects_imported = 2

---------------------------------------------------------------------------
(* External changes and reload (SpecReload).  Another process (a sync      *)
(* client) rewrites or removes metadata.json and rewrites a project        *)
(* document at any moment, with a modification time of its choosing;       *)
(* reload runs as the two file system calls it makes on metadata.json: it  *)
(* reads the content, then asks for the modification time.                 *)

\* JsonStore::has_external_changes on the two Option<SystemTime>
has_external_changes_newer_only(current_mtime, last_mtime) ==
    current_mtime.some /\ (~last_mtime.some \/ current_mtime.v > last_mtime.v)

has_external_changes(current_mtime, last_mtime) ==
    CASE current_mtime.some /\ last_mtime.some -> current_mtime.v # last_mtime.v
      [] current_mtime.some /\ ~last_mtime.some -> TRUE
      [] ~current_mtime.some /\ last_mtime.some -> TRUE
      [] OTHER -> FALSE

\* Metadata::default(): the derived Default, so the version is 0
empty_metadata == [open |-> TRUE, version |-> 0, project_ids |-> <<>>, global_settings |-> <<>>]

\* what another process may leave in metadata.json: an index, or half of one
ExternalBytes ==
    {to_string_pretty(MetadataDoc(ids, <<>>, <<>>)) : ids \in {<<>>, <<1>>}} \cup {<<"{">>}

RInit ==
    /\ LET js == json_create_project(json_new(EmptyDisk).js, 1, "a", 0).js
       IN /\ disk = js.disk
          /\ metadata = js.metadata
          /\ projects_cache = js.cache
    /\ conn = EmptyTables
    /\ sqlite_files = <<>>
    /\ clock = 0
    /\ next_id = 1
    /\ last = NoLast
    /\ w = IdleW
    /\ thr = IdleThr
    /\ mig = IdleMig
    /\ metadata_mtime = Some(0)
    /\ last_metadata_mtime = Some(0)
    /\ rl = IdleRl

ROthers == UNCHANGED <<sqlite_files, conn, next_id, w, thr, mig>>

RTick ==
    /\ clock < MaxClock
    /\ clock' = clock + 1
    /\ UNCHANGED <<disk, metadata, projects_cache, last, rvars>>
    /\ ROthers

\* another process replaces metadata.json
ExtWrite(bytes, t) ==
    /\ disk[metadata_path].bytes # bytes \/ metadata_mtime # Some(t)
    /\ disk' = [disk EXCEPT ![metadata_path] =
                    [exists |-> TRUE, bytes |-> bytes, via |-> "rename"]]
    /\ metadata_mtime' = Some(t)
    /\ last' = NoLast
    /\ UNCHANGED <<metadata, projects_cache, clock, last_metadata_mtime, rl>>
    /\ ROthers

\* another process removes metadata.json
ExtDelete ==
    /\ disk[metadata_path].exists
    /\ disk' = [disk EXCEPT ![metadata_path] = ABSENT]
    /\ metadata_mtime' = NoneV
    /\ last' = NoLast
    /\ UNCHANGED <<metadata, projects_cache, clock, last_metadata_mtime, rl>>
    /\ ROthers

\* another process replaces the document of project 1
ExtWriteProject ==
    LET doc == ProjectDoc(1, "ext", <<>>, <<>>, <<>>, 0, 0)
    IN /\ disk[project_path(1)] # FileOf(doc)
       /\ disk' = [disk EXCEPT ![project_path(1)] = FileOf(doc)]
       /\ last' = NoLast
       /\ UNCHANGED <<metadata, projects_cache, clock, rvars>>
       /\ ROthers

\* a read of one project by the store (get_project_by_id)
RGetProject(id) ==
    /\ rl.pc = "idle"
    /\ id \in Range(metadata.project_ids)
    /\ LET r == load_project(JsState, id)
       IN /\ projects_cache' = r.js.cache
          /\ last' = [op |-> "get_project_by_id", id |-> id, ok |-> r.ok,
                      data |-> IF r.ok THEN Some(r.data) ELSE NoneV]
    /\ UNCHANGED <<disk, metadata, clock, rvars>>
    /\ ROthers

RHasExternalChanges ==
    /\ rl.pc = "idle"
    /\ last' = [op |-> "has_external_changes", current |-> metadata_mtime,
                recorded |-> last_metadata_mtime,
                result |-> has_external_changes(metadata_mtime, last_metadata_mtime)]
    /\ UNCHANGED <<disk, metadata, projects_cache, clock, rvars>>
    /\ ROthers

\* reload up to the content of metadata.json: clear_cache, then in
\* reload_metadata the existence test and either the read and the parse or
\* the empty index and its file
ReloadRead ==
    /\ rl.pc = "idle"
    /\ projects_cache' = <<>>
    /\ LET f == disk[metadata_path]
           p == from_str(f.bytes)
           before == [cache |-> projects_cache, metadata |-> metadata,
                      missing |-> ~f.exists]
       IN IF f.exists
          THEN IF p.ok
               THEN /\ metadata' = MetadataFromDoc(p.v)
                    /\ rl' = [pc |-> "mtime", before |-> before]
                    /\ UNCHANGED <<disk, metadata_mtime, last>>
               ELSE /\ last' = [op |-> "reload", ok |-> FALSE, before |-> before]
                    /\ UNCHANGED <<disk, metadata, metadata_mtime, rl>>
          ELSE /\ metadata' = empty_metadata
               /\ disk' = write_json_atomic(disk, metadata_path, MetadataToDoc(empty_metadata))
               /\ metadata_mtime' = Some(clock)
               /\ rl' = [pc |-> "mtime", before |-> before]
               /\ UNCHANGED last
    /\ UNCHANGED <<clock, last_metadata_mtime>>
    /\ ROthers

\* ... and the modification time it records before it returns Ok
ReloadMtime ==
    /\ rl.pc = "mtime"
    /\ last_metadata_mtime' = metadata_mtime
    /\ rl' = IdleRl
    /\ last' = [op |-> "reload", ok |-> TRUE, before |-> rl.before]
    /\ UNCHANGED <<disk, metadata, projects_cache, clock, metadata_mtime>>
    /\ ROthers

RNext ==
    \/ RTick
    \/ \E bytes \in ExternalBytes, t \in Times : ExtWrite(bytes, t)
    \/ ExtDelete
    \/ ExtWriteProject
    \/ \E id \in Ids : RGetProject(id)
    \/ RHasExternalChanges
    \/ ReloadRead
    \/ ReloadMtime

SpecReload == RInit /\ [][RNext]_vars

(* C23: has_external_changes returns true exactly when the observed state  *)
(* of metadata.json differs from the recorded one: the two modification    *)
(* times differ, in either direction, or the file exists and no time was   *)
(* recorded, or a time was recorded and the file does not exist; it        *)
(* returns false when the two are equal or both absent.                    *)
C23_ExternalChanges ==
    last.op = "has_external_changes" =>
        LET current == last.current
            recorded == last.recorded
        IN last.result <=>
               \/ current.some /\ recorded.some /\ current.v # recorded.v
               \/ current.some /\ ~recorded.some
               \/ ~current.some /\ recorded.some

\* the file went back in time and the call reported it
C23_Witness ==
    /\ last.op = "has_external_changes"
    /\ last.current.some /\ last.recorded.some
    /\ last.current.v < last.recorded.v
    /\ last.result

\* the index in memory is the one metadata.json holds
IndexInSync ==
    LET f == disk[metadata_path]
        p == from_str(f.bytes)
    IN f.exists /\ p.ok /\ metadata = MetadataFromDoc(p.v)

(* C24: when reload has returned Ok the project cache is empty, the index  *)
(* in memory is the content of metadata.json, the recorded modification    *)
(* time is the file's, so has_external_changes returns false, and a read   *)
(* of a listed project returns its document on disk.                       *)
C24_ReloadResync ==
    (last.op = "reload" /\ last.ok) =>
        /\ projects_cache = <<>>
        /\ IndexInSync
        /\ last_metadata_mtime = metadata_mtime
        /\ ~has_external_changes(metadata_mtime, last_metadata_mtime)
        /\ \A id \in Range(metadata.project_ids) :
               LET r == load_project(JsState, id)
               IN r.ok => r.data = from_str(disk[project_path(id)].bytes).v

---------------------------------------------------------------------------
(* Concurrent calls on the relational store (SpecDb).  Every Database      *)
(* method locks the connection for its whole body, except update_project:  *)
(* it calls get_project_by_id, which locks and unlocks, then locks again   *)
(* for its UPDATE, then calls get_project_by_id once more.                 *)

\* the UPDATE of update_project, from the row that was read before
update_project_write(c, id, existing, name, description, ts) ==
    [c EXCEPT !.projects =
        {IF r.id = id
         THEN [r EXCEPT !.name = IF name.some THEN name.v ELSE existing.name,
                        !.description = IF description.some THEN description.v
                                        ELSE existing.description,
                        !.updated_at = ts]
         ELSE r : r \in @}]

\* update_project run alone
update_project_alone(c, id, name, description, ts) ==
    IF HasId(c.projects, id)
    THEN update_project_write(c, id, RowById(c.projects, id), name, description, ts)
    ELSE c

DbCalls ==
    [op : {"update_project"}, name : {NoneV, Some("x")}, description : {NoneV, Some("y")}]
        \cup {[op |-> "delete_project", name |-> NoneV, description |-> NoneV]}

DbIdle == [pc |-> "idle", call |-> NoneV, existing |-> NoneV, result |-> NoneV]

DInit ==
    /\ conn = db_create_project(EmptyTables, ConcProject, "a", 0).c
    /\ disk = EmptyDisk
    /\ sqlite_files = <<>>
    /\ metadata = NoStore
    /\ projects_cache = <<>>
    /\ clock = 0
    /\ next_id = ConcProject
    /\ last = NoLast
    /\ w = IdleW
    /\ thr = [t \in Threads |-> DbIdle]
    /\ mig = IdleMig
    /\ NoReload

DOthers == UNCHANGED <<disk, sqlite_files, metadata, projects_cache, clock, next_id, last, w, mig, rvars>>

\* get_project_by_id, under the lock
db_find_project(c, id) == IF HasId(c.projects, id) THEN Some(RowById(c.projects, id)) ELSE NoneV

\* a thread calls update_project: the first get_project_by_id
DUpdateRead(t, call) ==
    /\ thr[t].pc = "idle"
    /\ call.op = "update_project"
    /\ LET existing == db_find_project(conn, ConcProject)
       IN thr' = [thr EXCEPT ![t] =
                     IF existing.some
                     THEN [pc |-> "read", call |-> Some(call), existing |-> existing,
                           result |-> NoneV]
                     ELSE [pc |-> "done", call |-> Some(call), existing |-> NoneV,
                           result |-> NoneV]]
    /\ UNCHANGED conn
    /\ DOthers

\* the UPDATE, under the lock taken again
DUpdateWrite(t) ==
    /\ thr[t].pc = "read"
    /\ conn' = update_project_write(conn, ConcProject, thr[t].existing.v, thr[t].call.v.name,
                                    thr[t].call.v.description, clock)
    /\ thr' = [thr EXCEPT ![t].pc = "written"]
    /\ DOthers

\* the closing get_project_by_id, whose row is returned
DUpdateReturn(t) ==
    /\ thr[t].pc = "written"
    /\ thr' = [thr EXCEPT ![t].pc = "done", ![t].result = db_find_project(conn, ConcProject)]
    /\ UNCHANGED conn
    /\ DOthers

\* delete_project holds the lock from its first line to its last
DDelete(t, call) ==
    /\ thr[t].pc = "idle"
    /\ call.op = "delete_project"
    /\ conn' = db_delete_project(conn, ConcProject).c
    /\ thr' = [thr EXCEPT ![t] = [pc |-> "done", call |-> Some(call), existing |-> NoneV,
                                  result |-> NoneV]]
    /\ DOthers

DNext ==
    \E t \in Threads :
        \/ \E call \in DbCalls : DUpdateRead(t, call)
        \/ DUpdateWrite(t)
        \/ DUpdateReturn(t)
        \/ \E call \in DbCalls : DDelete(t, call)

SpecDb == DInit /\ [][DNext]_vars

\* one whole call applied to the tables
DbApplyCall(c, call) ==
    IF call.op = "delete_project" THEN db_delete_project(c, ConcProject).c
    ELSE update_project_alone(c, ConcProject, call.name, call.description, 0)

\* the tables after the calls of the threads of S, run whole in any order
RECURSIVE SequentialOutcomes(_, _)
SequentialOutcomes(c, S) ==
    IF S = {} THEN {c}
    ELSE UNION {SequentialOutcomes(DbApplyCall(c, thr[t].call.v), S \ {t}) : t \in S}

(* C25: when the concurrent Database calls have returned, the tables are   *)
(* those some sequential order of the whole calls leaves: two concurrent   *)
(* update_project calls that set different fields of one project leave     *)
(* both fields updated.                                                    *)
C25_Linearizable ==
    (\A t \in Threads : thr[t].pc = "done") =>
        conn \in SequentialOutcomes(db_create_project(EmptyTables, ConcProject, "a", 0).c, Threads)

---------------------------------------------------------------------------
(* Missing records and unreadable documents (SpecFault).  Both stores hold *)
(* three projects, each with an item, a card and a todo; the document      *)
(* store was reopened, so nothing is cached.  A project document may then  *)
(* be lost or cut short on disk, and every read, update and delete is      *)
(* called with every id.  A call answers "found" (Some, true, the rows),   *)
(* "absent" (None, false, no rows) or "err".                               *)

\* ProjectData::to_project
to_project(data) ==
    [id |-> data.id, name |-> data.name, created_at |-> data.created_at,
     updated_at |-> data.updated_at]

RECURSIVE sort_by_updated_at_desc(_)
\* projects.sort_by(|a, b| b.updated_at.cmp(&a.updated_at)): a stable sort
sort_by_updated_at_desc(s) ==
    IF s = <<>> THEN <<>>
    ELSE LET rest == sort_by_updated_at_desc(Tail(s))
             x == Head(s)
         IN SelectSeq(rest, LAMBDA y : y.updated_at > x.updated_at) \o <<x>>
                \o SelectSeq(rest, LAMBDA y : y.updated_at <= x.updated_at)

RECURSIVE load_listed_or_fail(_, _, _)
\* the variant that gives up at the first document that does not load
load_listed_or_fail(js, ids, projects) ==
    IF ids = <<>> THEN [ok |-> TRUE, js |-> js, projects |-> projects]
    ELSE LET r == load_project(js, Head(ids))
         IN IF r.ok
            THEN load_listed_or_fail(r.js, Tail(ids), Append(projects, to_project(r.data)))
            ELSE [ok |-> FALSE, js |-> r.js, projects |-> <<>>]

RECURSIVE load_listed(_, _, _)
\* the loop of get_all_projects: a document that does not load is passed over
load_listed(js, ids, projects) ==
    IF ids = <<>> THEN [ok |-> TRUE, js |-> js, projects |-> projects]
    ELSE LET r == load_project(js, Head(ids))
         IN load_listed(r.js, Tail(ids),
                        IF r.ok THEN Append(projects, to_project(r.data)) ELSE projects)

json_get_all_projects(js) ==
    LET r == load_listed(js, js.metadata.project_ids, <<>>)
    IN [r EXCEPT !.projects = IF r.ok THEN sort_by_updated_at_desc(@) ELSE @]

ProjectOps ==
    {"get_project_by_id", "get_file_cards_by_project", "get_todos_by_project",
     "update_project", "delete_project"}

ChildOps ==
    {"update_item", "update_file_card", "update_todo", "delete_item", "delete_file_card",
     "delete_todo"}

\* the list of a project document an operation on a child looks into
KindOf(op) ==
    CASE op \in {"update_item", "delete_item"} -> "items"
      [] op \in {"update_file_card", "delete_file_card"} -> "file_cards"
      [] OTHER -> "todos"

Answer(found) == IF found THEN "found" ELSE "absent"

\* a JsonStore operation on an id: its answer and the store it leaves
JsonCall(op, js, id, ts) ==
    LET listed == id \in Range(js.metadata.project_ids)
        l == load_project(js, id)
        r == CASE op = "update_project" -> json_update_project(js, id, Some("n"), ts)
               [] op = "delete_project" -> json_delete_project(js, id)
               [] op = "update_item" -> json_update_item(js, id, Some("t"), NoneV, NoneV, NoneV, ts)
               [] op = "update_file_card" -> json_update_file_card(js, id, Some(1), ts)
               [] op = "update_todo" -> json_update_todo(js, id, Some(TRUE), NoneV, ts)
               [] op = "delete_item" -> json_delete_item(js, id, ts)
               [] op = "delete_file_card" -> json_delete_file_card(js, id)
               [] op = "delete_todo" -> json_delete_todo(js, id)
               [] OTHER -> [ok |-> FALSE, js |-> js]
    IN CASE op = "get_project_by_id" ->
                \* not listed: Ok(None); Err(_) => Ok(None)
                IF ~listed THEN [answer |-> "absent", js |-> js]
                ELSE [answer |-> Answer(l.ok), js |-> l.js]
         [] op \in {"get_file_cards_by_project", "get_todos_by_project"} ->
                \* load_project(project_id)?
                [answer |-> IF l.ok THEN "found" ELSE "err", js |-> l.js]
         [] OTHER -> [answer |-> Answer(r.ok), js |-> r.js]

\* the same operation of Database
DbCall(op, c, id, ts) ==
    LET r == CASE op = "update_project" -> db_update_project(c, id, Some("n"), ts)
               [] op = "delete_project" -> db_delete_project(c, id)
               [] op = "update_item" -> db_update_item(c, id, Some("t"), NoneV, NoneV, NoneV, ts)
               [] op = "update_file_card" -> db_update_file_card(c, id, Some(1), ts)
               [] op = "update_todo" -> db_update_todo(c, id, Some(TRUE), NoneV, ts)
               [] op = "delete_item" -> db_delete_item(c, id, ts)
               [] op = "delete_file_card" -> db_delete_file_card(c, id)
               [] op = "delete_todo" -> db_delete_todo(c, id)
               [] OTHER -> [ok |-> FALSE, c |-> c]
    IN CASE op = "get_project_by_id" -> [answer |-> Answer(HasId(c.projects, id)), c |-> c]
         [] op = "get_file_cards_by_project" ->
                [answer |-> Answer(RowsOf(c.file_cards, id) # {}), c |-> c]
         [] op = "get_todos_by_project" ->
                [answer |-> Answer(RowsOf(c.todos, id) # {}), c |-> c]
         [] OTHER -> [answer |-> Answer(r.ok), c |-> r.c]

\* a project with one item, one card and one todo, all created at ts
JsonSeed(js, p, ts) ==
    LET j1 == json_create_project(js, p, "a", ts).js
        j2 == json_create_item(j1, p, p, "t", NoneV, NoneV, ts).js
        j3 == json_create_file_card(j2, p, p, ts).js
    IN json_create_todo(j3, p, p, ts).js

DbSeed(c, p, ts) ==
    LET c1 == db_create_project(c, p, "a", ts).c
        c2 == db_create_item(c1, p, p, "t", NoneV, NoneV, ts).c
        c3 == db_create_file_card(c2, p, p, ts).c
    IN db_create_todo(c3, p, p, ts).c

FInit ==
    /\ LET js == JsonSeed(JsonSeed(JsonSeed(json_new(EmptyDisk).js, 1, 0), 2, 1), 3, 0)
       IN /\ disk = js.disk
          /\ metadata = js.metadata
    /\ projects_cache = <<>>
    /\ conn = DbSeed(DbSeed(DbSeed(EmptyTables, 1, 0), 2, 1), 3, 0)
    /\ sqlite_files = <<>>
    /\ clock = 1
    /\ next_id = MaxIds
    /\ last = NoLast
    /\ w = IdleW
    /\ thr = IdleThr
    /\ mig = IdleMig
    /\ NoReload

MaxFaultCalls == 2    \* calls made on the two stores

FOthers == UNCHANGED <<sqlite_files, next_id, w, thr, mig, rvars>>

\* the document of a listed project that is not cached becomes unreadable
FLose(p, file) ==
    /\ p \in Range(metadata.project_ids)
    /\ p \notin DOMAIN projects_cache
    /\ disk[project_path(p)].exists /\ ParseOk(disk[project_path(p)].bytes)
    /\ disk' = [disk EXCEPT ![project_path(p)] = file]
    /\ last' = NoLast
    /\ UNCHANGED <<metadata, projects_cache, conn, clock>>
    /\ FOthers

FCall(op, id) ==
    /\ clock < 1 + MaxFaultCalls
    /\ clock' = clock + 1
    /\ LET rj == JsonCall(op, JsState, id, clock)
           rd == DbCall(op, conn, id, clock)
       IN /\ disk' = rj.js.disk
          /\ metadata' = rj.js.metadata
          /\ projects_cache' = rj.js.cache
          /\ conn' = rd.c
          /\ last' = [op |-> op, id |-> id, json |-> rj.answer, db |-> rd.answer,
                      before |-> JsState, before_db |-> conn]
    /\ FOthers

FGetAllProjects ==
    /\ clock < 1 + MaxFaultCalls
    /\ clock' = clock + 1
    /\ LET r == json_get_all_projects(JsState)
       IN /\ projects_cache' = r.js.cache
          /\ last' = [op |-> "get_all_projects", ok |-> r.ok, projects |-> r.projects,
                      before |-> JsState]
    /\ UNCHANGED <<disk, metadata, conn>>
    /\ FOthers

FNext ==
    \/ \E p \in Ids, file \in {ABSENT, [exists |-> TRUE, bytes |-> <<"{">>, via |-> "write"]} :
           FLose(p, file)
    \/ \E op \in ProjectOps \cup ChildOps, id \in Ids : FCall(op, id)
    \/ FGetAllProjects

SpecFault == FInit /\ [][FNext]_vars

\* no record of the kind the operation looks for has this id, in either store
NoRecord(op, js, c, id) ==
    IF op \in ProjectOps
    THEN /\ id \notin Range(js.metadata.project_ids)
         /\ ~js.disk[project_path(id)].exists
         /\ ~HasId(c.projects, id)
    ELSE /\ ~scan_projects(js, js.metadata.project_ids, KindOf(op), id).found
         /\ \A p \in Range(js.metadata.project_ids) : load_project(js, p).ok
         /\ ~HasId(c[KindOf(op)], id)

(* C26: a read, update or delete that targets an id with no matching       *)
(* record answers with an empty, None or false result in both stores,      *)
(* never with Err, and leaves the files, the index and the tables as they  *)
(* were.                                                                   *)
C26_NotFoundIsValue ==
    (last.op \in ProjectOps \cup ChildOps
        /\ NoRecord(last.op, last.before, last.before_db, last.id)) =>
        /\ last.json = "absent"
        /\ last.db = "absent"
        /\ disk = last.before.disk
        /\ metadata = last.before.metadata
        /\ conn = last.before_db

\* the operation had to read the document of a listed project and could not
ReadFailed(op, js, id) ==
    IF op \in ProjectOps
    THEN id \in Range(js.metadata.project_ids) /\ ~load_project(js, id).ok
    ELSE /\ ~scan_projects(js, js.metadata.project_ids, KindOf(op), id).found
         /\ \E p \in Range(js.metadata.project_ids) : ~load_project(js, p).ok

(* C27: when the read of a listed project document fails during            *)
(* get_project_by_id, update_project or an update or delete of an item, a  *)
(* card or a todo, the JsonStore operation returns Err and does not report *)
(* the record as absent.                                                   *)
C27_ReadErrorSurfaced ==
    (last.op \in ({"get_project_by_id", "update_project"} \cup ChildOps)
        /\ ReadFailed(last.op, last.before, last.id)) =>
        last.json = "err"

\* the listed projects whose document loads
Loadable(js) == {p \in Range(js.metadata.project_ids) : load_project(js, p).ok}

(* C28: get_all_projects returns Ok with exactly the listed projects whose *)
(* document loads, each once, by updated_at descending, also when some     *)
(* listed documents cannot be read or parsed.                              *)
C28_ListSkipsUnloadable ==
    last.op = "get_all_projects" =>
        /\ last.ok
        /\ {last.projects[i].id : i \in DOMAIN last.projects} = Loadable(last.before)
        /\ Len(last.projects) = Cardinality(Loadable(last.before))
        /\ \A i \in DOMAIN last.projects :
               last.projects[i] = to_project(load_project(last.before, last.projects[i].id).data)
        /\ \A i, j \in DOMAIN last.projects :
               i < j => last.projects[i].updated_at >= last.projects[j].updated_at

\* one listed document is unreadable and the two others come back, the
\* later one first although it is listed second
C28_Witness ==
    /\ last.op = "get_all_projects"
    /\ last.ok
    /\ Len(last.before.metadata.project_ids) = 3
    /\ Len(last.projects) = 2
    /\ last.projects[1].updated_at > last.projects[2].updated_at
    /\ IndexOfId(last.projects, last.projects[1].id) = 1
    /\ \E i, j \in DOMAIN last.before.metadata.project_ids :
           /\ i < j
           /\ last.before.metadata.project_ids[i] = last.projects[2].id
           /\ last.before.metadata.project_ids[j] = last.projects[1].id

---------------------------------------------------------------------------
(* Enum tokens of stored items (SpecTokens).  The items table keeps        *)
(* item_type, command_mode and coding_agent_type as text; a row written by *)
(* a later version may hold a token this version does not know.  Each      *)
(* reader decodes the three columns of the row in its own way.             *)

\* strum EnumString, kebab-case, of ItemType
ItemTypeTokens == {"note", "ide", "file", "url", "remote-ide", "command"}

\* strum EnumString, lowercase, of CommandMode
CommandModeTokens == {"background", "output"}

\* CodingAgentType is declared outside models.rs: one recognized token
\* stands for its closed set
CodingAgentTokens == {"agent"}

\* str::parse::<E>(): Ok for a token of the enum, Err for any other text
parse_token(s, tokens) == IF s \in tokens THEN [ok |-> TRUE, v |-> s] ELSE [ok |-> FALSE]

\* column.and_then(|s| s.parse().ok())
parse_optional(column, tokens) ==
    IF column.some /\ parse_token(column.v, tokens).ok THEN column ELSE NoneV

\* the Item built from a row by Database::get_project_by_id, update_item and
\* export_all_data: item_type_str.parse().unwrap()
decode_item_unwrap(row) ==
    IF ~parse_token(row.type, ItemTypeTokens).ok THEN [outcome |-> "panic"]
    ELSE [outcome |-> "ok",
          item |-> [id |-> row.id, item_type |-> row.type,
                    command_mode |-> parse_optional(row.command_mode, CommandModeTokens),
                    coding_agent_type |->
                        parse_optional(row.coding_agent_type, CodingAgentTokens)]]

\* ... and by get_sqlite_items: item_type_str.parse().unwrap_or(ItemType::Note)
decode_item_or_note(row) ==
    [outcome |-> "ok",
     item |-> [id |-> row.id,
               item_type |-> IF parse_token(row.type, ItemTypeTokens).ok THEN row.type
                             ELSE "note",
               command_mode |-> parse_optional(row.command_mode, CommandModeTokens),
               coding_agent_type |-> parse_optional(row.coding_agent_type, CodingAgentTokens)]]

ItemReaders == {"get_project_by_id", "update_item", "export_all_data", "get_sqlite_items"}

decode_item(reader, row) ==
    IF reader = "get_sqlite_items" THEN decode_item_or_note(row) ELSE decode_item_unwrap(row)

StoredTypeTokens == {"note", "command", "widget"}
StoredModeTokens == {NoneV, Some("output"), Some("stream")}
StoredAgentTokens == {NoneV, Some("agent"), Some("robot")}

\* the row of item 2 of project 1 with the three columns as stored
TokenRow(type, command_mode, coding_agent_type) ==
    RowById(db_create_item(db_create_project(EmptyTables, 1, "a", 0).c, 1, 2, "t",
                           NoneV, NoneV, 0).c.items, 2)
        @@ [type |-> type, command_mode |-> command_mode,
            coding_agent_type |-> coding_agent_type]

KInit ==
    /\ \E type \in StoredTypeTokens, mode \in StoredModeTokens, agent \in StoredAgentTokens :
           conn = [db_create_project(EmptyTables, 1, "a", 0).c
                       EXCEPT !.items = {TokenRow(type, mode, agent)}]
    /\ disk = EmptyDisk
    /\ sqlite_files = <<>>
    /\ metadata = NoStore
    /\ projects_cache = <<>>
    /\ clock = 0
    /\ next_id = MaxIds
    /\ last = NoLast
    /\ w = IdleW
    /\ thr = IdleThr
    /\ mig = IdleMig
    /\ NoReload

KOthers == UNCHANGED <<disk, sqlite_files, metadata, projects_cache, next_id, w, thr, mig, rvars>>

\* a read of the project's items by one of the readers that only read
KRead(reader) ==
    /\ reader # "update_item"
    /\ last' = [op |-> reader, row |-> RowById(conn.items, 2),
                result |-> decode_item(reader, RowById(conn.items, 2))]
    /\ UNCHANGED <<conn, clock>>
    /\ KOthers

\* update_item(2, title): the row is decoded before the UPDATE
KUpdateItem(title) ==
    /\ clock < MaxClock
    /\ clock' = clock + 1
    /\ LET row == RowById(conn.items, 2)
           r == decode_item("update_item", row)
       IN /\ last' = [op |-> "update_item", row |-> row, result |-> r]
          /\ conn' = IF r.outcome = "panic" THEN conn
                     ELSE db_update_item(conn, 2, Some(title), NoneV, NoneV, NoneV, clock').c
    /\ KOthers

KNext ==
    \/ \E reader \in ItemReaders : KRead(reader)
    \/ \E title \in {"foo", "bar"} : KUpdateItem(title)

SpecTokens == KInit /\ [][KNext]_vars

(* C29: a read of a stored item by Database::get_project_by_id,            *)
(* update_item, export_all_data or the migration's item reader completes   *)
(* without panic or error whatever the item_type, command_mode and         *)
(* coding-agent tokens of the row are, and an unrecognized token yields    *)
(* None, or a recognized default for the item type.                        *)
C29_UnknownTokens ==
    last.op \in ItemReaders =>
        /\ last.result.outcome = "ok"
        /\ last.result.item.item_type \in ItemTypeTokens
        /\ (last.row.command_mode.some /\ last.row.command_mode.v \notin CommandModeTokens)
               => last.result.item.command_mode = NoneV
        /\ (last.row.coding_agent_type.some
                /\ last.row.coding_agent_type.v \notin CodingAgentTokens)
               => last.result.item.coding_agent_type = NoneV

---------------------------------------------------------------------------
(* Parents of the stored children (SpecRef).  From one project in both     *)
(* stores: projects and children are created, for a project that exists or *)
(* not, updated, deleted and reordered, and envelopes are imported in both *)
(* modes, in any order.                                                    *)

\* envelopes of one item, at most one project and, with a project, at
\* most one card of that project; the item names project 1, the last
\* project id, or no project at all (0)
RefEnvelopes ==
    {data \in ImportEnvelopes :
        /\ Len(data.projects) <= 1
        /\ Len(data.items) = 1
        /\ data.items[1].id = MaxChildren + 2
        /\ data.file_cards.some =>
               /\ data.projects # <<>>
               /\ data.file_cards.v[1].project_id = data.projects[1].id
               /\ data.file_cards.v[1].is_expanded = 0}

\* the import is the last call of a behaviour
XApply(rj, rd, l) ==
    /\ last.op # "import_data"
    /\ disk' = rj.js.disk
    /\ projects_cache' = rj.js.cache
    /\ metadata' = rj.js.metadata
    /\ conn' = rd.c
    /\ last' = l
    /\ UNCHANGED <<sqlite_files, clock, w, thr, mig, rvars>>

XCreateProject ==
    /\ next_id < MaxIds
    /\ next_id' = next_id + 1
    /\ XApply(json_create_project(JsState, next_id + 1, "a", clock),
              db_create_project(conn, next_id + 1, "a", clock),
              [op |-> "create_project"])

\* create_item, create_file_card or create_todo for any project id
XCreateChild(kind, project_id) ==
    /\ next_id < MaxIds
    /\ next_id' = next_id + 1
    /\ LET id == next_id + 1
           rj == CASE kind = "items" ->
                        json_create_item(JsState, project_id, id, "t", NoneV, NoneV, clock)
                   [] kind = "file_cards" -> json_create_file_card(JsState, project_id, id, clock)
                   [] OTHER -> json_create_todo(JsState, project_id, id, clock)
           rd == CASE kind = "items" ->
                        db_create_item(conn, project_id, id, "t", NoneV, NoneV, clock)
                   [] kind = "file_cards" -> db_create_file_card(conn, project_id, id, clock)
                   [] OTHER -> db_create_todo(conn, project_id, id, clock)
       IN XApply(rj, rd, [op |-> "create_child", kind |-> kind, project_id |-> project_id,
                          ok |-> rj.ok, ok_db |-> rd.ok, before |-> JsState,
                          before_db |-> conn])

\* an update or a delete of a project or of a child
XCall(op, id) ==
    /\ op \in ProjectOps => id \in Ids
    /\ UNCHANGED next_id
    /\ XApply(JsonCall(op, JsState, id, clock), DbCall(op, conn, id, clock), [op |-> op])

XReorderItems(project_id, item_ids) ==
    /\ UNCHANGED next_id
    /\ XApply(json_reorder_items(JsState, project_id, item_ids, clock),
              db_reorder_items(conn, project_id, item_ids, clock),
              [op |-> "reorder_items"])

XImportData(data, mode) ==
    /\ UNCHANGED next_id
    /\ XApply(json_import_data(JsState, data, mode), db_import_data(conn, data, mode),
              [op |-> "import_data", mode |-> mode, data |-> data, before_db |-> conn])

XNext ==
    \/ XCreateProject
    \/ \E kind \in {"items", "file_cards", "todos"}, project_id \in Ids :
           XCreateChild(kind, project_id)
    \/ \E op \in {"update_project", "delete_project"} \cup ChildOps,
          id \in Ids \cup {MaxChildren + 2} : XCall(op, id)
    \/ \E project_id \in Ids, item_ids \in ReorderArgs : XReorderItems(project_id, item_ids)
    \/ \E data \in RefEnvelopes, mode \in {"merge", "replace"} : XImportData(data, mode)

SpecRef == IInit /\ [][XNext]_vars

ChildKinds == {"items", "file_cards", "todos"}

\* every child row names a project row
DbParents(c) ==
    \A kind \in ChildKinds : \A r \in c[kind] : HasId(c.projects, r.project_id)

\* every child is held by the document of the project it names, that
\* document is listed, and no document or cache entry is left unlisted
JsonParents(js) ==
    /\ \A p \in Range(js.metadata.project_ids) :
           LET r == load_project(js, p)
           IN /\ r.ok
              /\ r.data.id = p
              /\ \A kind \in ChildKinds : \A i \in DOMAIN r.data[kind] :
                     r.data[kind][i].project_id = p
    /\ \A p \in Ids \ Range(js.metadata.project_ids) :
           ~js.disk[project_path(p)].exists /\ p \notin DOMAIN js.cache

MaxVersion == 6    \* stored versions 0..MaxVersion are opened

Create(obj) == [kind |-> "create", obj |-> obj]
AddColumn(table, column) == [kind |-> "add_column", table |-> table, obj |-> column]
UserVersion(v) == [kind |-> "user_version", v |-> v]

\* the five batches of run_migrations, in the order of the code
Steps ==
    << <<Create("projects"), Create("items"), Create("file_cards"), Create("settings"),
         UserVersion(1)>>,
       <<AddColumn("items", "items.coding_agent_type"), UserVersion(2)>>,
       <<AddColumn("items", "items.coding_agent_args"), UserVersion(3)>>,
       <<AddColumn("items", "items.coding_agent_env"), UserVersion(4)>>,
       <<Create("todos"), Create("idx_todos_project"), UserVersion(5)>> >>

target_version == Len(Steps)

\* one statement on the database: CREATE ... IF NOT EXISTS never fails,
\* ALTER TABLE ADD COLUMN fails on a missing table or a duplicate column
execute(c, stmt) ==
    CASE stmt.kind = "create" ->
             [ok |-> TRUE, c |-> [c EXCEPT !.objects = @ \cup {stmt.obj}]]
      [] stmt.kind = "add_column" ->
             IF stmt.table \in c.objects /\ stmt.obj \notin c.objects
             THEN [ok |-> TRUE, c |-> [c EXCEPT !.objects = @ \cup {stmt.obj}]]
             ELSE [ok |-> FALSE, c |-> c]
      [] OTHER -> [ok |-> TRUE, c |-> [c EXCEPT !.user_version = stmt.v]]

\* the schema objects the batch of step n creates
StepObjects(n) ==
    {Steps[n][i].obj : i \in {j \in 1..Len(Steps[n]) : Steps[n][j].kind # "user_version"}}

\* the schema the batches 1..v produce
SchemaAt(v) == UNION {StepObjects(n) : n \in {k \in 1..target_version : k <= v}}

step_due_next_only(current_version, n) == current_version = n - 1

\* if current_version < N
step_due(current_version, n) == current_version < n

SInit ==
    /\ \E v \in 0..MaxVersion : conn = [user_version |-> v, objects |-> SchemaAt(v)]
    /\ disk = EmptyDisk
    /\ sqlite_files = <<>>
    /\ metadata = NoStore
    /\ projects_cache = <<>>
    /\ clock = 0
    /\ next_id = 0
    /\ last = NoLast
    /\ w = IdleW
    /\ thr = IdleThr
    /\ mig = [pc |-> "closed", crashed |-> FALSE]
    /\ NoReload

SOthers == UNCHANGED <<disk, sqlite_files, metadata, projects_cache, clock, next_id, last, w, thr, rvars>>

\* Database::new: the version is read once; an up-to-date database returns at once
SOpen ==
    /\ mig.pc = "closed"
    /\ mig' = [pc |-> IF conn.user_version >= target_version THEN "done" ELSE "run",
               current_version |-> conn.user_version, step |-> 1, stmt |-> 1,
               applied |-> <<>>, start |-> conn, crashed |-> mig.crashed]
    /\ UNCHANGED conn
    /\ SOthers

\* a step whose guard is false is passed over
SSkip ==
    /\ mig.pc = "run"
    /\ mig.step <= target_version
    /\ ~step_due(mig.current_version, mig.step)
    /\ mig' = [mig EXCEPT !.step = @ + 1]
    /\ UNCHANGED conn
    /\ SOthers

\* the next statement of the batch of a due step; an error ends the call
SStatement ==
    /\ mig.pc = "run"
    /\ mig.step <= target_version
    /\ step_due(mig.current_version, mig.step)
    /\ LET r == execute(conn, Steps[mig.step][mig.stmt])
       IN  /\ conn' = r.c
           /\ mig' = IF ~r.ok THEN [mig EXCEPT !.pc = "failed"]
                     ELSE IF mig.stmt = Len(Steps[mig.step])
                          THEN [mig EXCEPT !.step = @ + 1, !.stmt = 1,
                                           !.applied = Append(@, mig.step)]
                          ELSE [mig EXCEPT !.stmt = @ + 1]
    /\ SOthers

\* Ok(()) after the last step
SFinish ==
    /\ mig.pc = "run"
    /\ mig.step > target_version
    /\ mig' = [mig EXCEPT !.pc = "done"]
    /\ UNCHANGED conn
    /\ SOthers

\* the process dies inside run_migrations; the database file stays as it is
SCrash ==
    /\ mig.pc = "run"
    /\ mig' = [pc |-> "closed", crashed |-> TRUE]
    /\ UNCHANGED conn
    /\ SOthers

\* the application exits after the call returned and is started again later
SClose ==
    /\ mig.pc \in {"done", "failed"}
    /\ mig' = [pc |-> "closed", crashed |-> mig.crashed]
    /\ UNCHANGED conn
    /\ SOthers

SNext == SOpen \/ SSkip \/ SStatement \/ SFinish \/ SCrash \/ SClose

SpecSchema == SInit /\ [][SNext]_vars

\* a call that began on the schema its stored version stands for
FromVersionSchema == mig.pc # "closed" /\ mig.start.objects = SchemaAt(mig.start.user_version)

\* C31: a call that starts from version v with the schema of v applies exactly
\* the steps v+1..5, each once and in increasing order, and ends with version 5;
\* from v >= 5 it applies no step and leaves the version as it was; the stored
\* version never decreases.
C31_ResumeFromAnyVersion ==
    /\ [](FromVersionSchema =>
            /\ mig.pc # "failed"
            /\ \A i \in 1..Len(mig.applied) : mig.applied[i] = mig.start.user_version + i
            /\ mig.pc = "done" =>
                 IF mig.start.user_version >= target_version
                 THEN mig.applied = <<>> /\ conn = mig.start
                 ELSE /\ Len(mig.applied) = target_version - mig.start.user_version
                      /\ conn.user_version = target_version
                      /\ conn.objects = SchemaAt(target_version))
    /\ [][conn'.user_version >= conn.user_version]_vars

C31_Witness ==
    /\ mig.pc = "done"
    /\ mig.start.user_version = 2
    /\ mig.start.objects = SchemaAt(2)
    /\ mig.applied = <<3, 4, 5>>
    /\ conn.user_version = 5

\* C32: after a crash inside run_migrations the stored version is the number of
\* the last step whose schema change is in effect, and the call made on
\* reopening does not fail.
C32_CrashConsistent ==
    mig.crashed =>
        /\ conn.objects = SchemaAt(conn.user_version)
        /\ mig.pc # "failed"

\* the fields of an item both stores keep, generated values aside
ItemView(item) ==
    [id |-> item.id, title |-> item.title, order |-> item.order,
     coding_agent_args |-> item.coding_agent_args,
     coding_agent_env |-> item.coding_agent_env]

(* C33: after every step of a sequence of calls applied to both stores     *)
(* with the same arguments, the two stores hold the same entities: the     *)
(* item reads back from the document store as from the relational store.   *)
C33_BackendsAgree ==
    next_id = 2 => ItemView(JsonItem(JsState, 2)) = ItemView(DbItem(conn, 2))

---------------------------------------------------------------------------
(* The store's own writes of metadata.json (SpecOwn).  No other process    *)
(* touches the data directory; every save_metadata gives metadata.json the *)
(* modification time of the moment it runs, and last_metadata_mtime is     *)
(* assigned by JsonStore::new and reload_metadata only.                    *)

\* JsonStore::delete_setting
json_delete_setting(js, key) ==
    [ok |-> TRUE, project |-> 0,
     js |-> save_metadata([js EXCEPT !.metadata.global_settings = Drop(@, key)])]

\* the store takes the result of a call that went through save_metadata
OApply(op, rj) ==
    /\ rl.pc = "idle"
    /\ disk' = rj.js.disk
    /\ projects_cache' = rj.js.cache
    /\ metadata' = rj.js.metadata
    /\ metadata_mtime' = Some(clock)
    /\ last' = [op |-> op]
    /\ UNCHANGED <<sqlite_files, conn, clock, w, thr, mig, last_metadata_mtime, rl>>

OSetSetting(key, value) ==
    /\ OApply("set_setting", json_set_setting(JsState, key, value))
    /\ UNCHANGED next_id

ODeleteSetting(key) ==
    /\ OApply("delete_setting", json_delete_setting(JsState, key))
    /\ UNCHANGED next_id

OCreateProject ==
    /\ next_id < MaxIds
    /\ next_id' = next_id + 1
    /\ OApply("create_project", json_create_project(JsState, next_id + 1, "a", clock))

\* delete_project of a listed project; an unknown id returns before any write
ODeleteProject(id) ==
    /\ id \in Range(metadata.project_ids)
    /\ OApply("delete_project", json_delete_project(JsState, id))
    /\ UNCHANGED next_id

ONextOwn ==
    \/ RTick
    \/ \E key \in {"k"}, value \in {"v", "x"} : OSetSetting(key, value)
    \/ \E key \in {"k"} : ODeleteSetting(key)
    \/ OCreateProject
    \/ \E id \in Ids : ODeleteProject(id)
    \/ \E id \in Ids : RGetProject(id)
    \/ RHasExternalChanges
    \/ ReloadRead
    \/ ReloadMtime

SpecOwn == RInit /\ [][ONextOwn]_vars

(* C34: from an opened or reloaded store, after any of the store's own     *)
(* calls that rewrite metadata.json and with no write by another process,  *)
(* has_external_changes returns false.                                     *)
C34_NoFalsePositive ==
    last.op = "has_external_changes" => ~last.result

---------------------------------------------------------------------------
(* delete_project beside a child mutation (SpecDelete): the threads of     *)
(* SpecConc, each of whose calls is a create_item / create_todo or a       *)
(* delete_project of the same project, one lock section or file system     *)
(* call at a time.                                                         *)

LOthers == UNCHANGED <<sqlite_files, conn, clock, next_id, w, mig, rvars>>

\* delete_project(id) is called
DelCall(t) ==
    /\ thr[t].pc = "idle"
    /\ thr[t].calls < MaxCalls
    /\ thr' = [thr EXCEPT ![t].pc = "del_check", ![t].calls = @ + 1,
                          ![t].op = "delete_project", ![t].project_id = ConcProject]
    /\ UNCHANGED <<disk, projects_cache, metadata, last>>
    /\ LOthers

\* the index lookup under the read lock; Ok(false) for an unlisted id
DelCheck(t) ==
    /\ thr[t].pc = "del_check"
    /\ thr' = [thr EXCEPT ![t] =
                 IF @.project_id \in Range(metadata.project_ids)
                 THEN [@ EXCEPT !.pc = "del_file"]
                 ELSE ThreadIdle(@.calls, @.acked)]
    /\ UNCHANGED <<disk, projects_cache, metadata, last>>
    /\ LOthers

\* if path.exists() { fs::remove_file(&path) }
DelRemoveFile(t) ==
    /\ thr[t].pc = "del_file"
    /\ disk' = [disk EXCEPT ![project_path(thr[t].project_id)] = ABSENT]
    /\ thr' = [thr EXCEPT ![t].pc = "del_cache"]
    /\ UNCHANGED <<projects_cache, metadata, last>>
    /\ LOthers

\* self.projects_cache.write().unwrap().remove(id)
DelCacheRemove(t) ==
    /\ thr[t].pc = "del_cache"
    /\ projects_cache' = Drop(projects_cache, thr[t].project_id)
    /\ thr' = [thr EXCEPT ![t].pc = "del_index"]
    /\ UNCHANGED <<disk, metadata, last>>
    /\ LOthers

\* meta.project_ids.retain(|pid| pid != id) under the write lock
DelIndex(t) ==
    /\ thr[t].pc = "del_index"
    /\ metadata' = [metadata EXCEPT !.project_ids =
                        SelectSeq(@, LAMBDA pid : pid # thr[t].project_id)]
    /\ thr' = [thr EXCEPT ![t].pc = "del_save"]
    /\ UNCHANGED <<disk, projects_cache, last>>
    /\ LOthers

\* save_metadata, then Ok(true)
DelSave(t) ==
    /\ thr[t].pc = "del_save"
    /\ disk' = write_json_atomic(disk, metadata_path, MetadataToDoc(metadata))
    /\ last' = [op |-> "delete_project", ok |-> TRUE, id |-> thr[t].project_id]
    /\ thr' = [thr EXCEPT ![t] = ThreadIdle(@.calls, @.acked)]
    /\ UNCHANGED <<projects_cache, metadata>>
    /\ LOthers

LNext ==
    \E t \in Threads :
        \/ \E op \in {"create_item", "create_todo"} : CCall(t, op)
        \/ CCacheGet(t)
        \/ CReadFile(t)
        \/ CCacheFill(t)
        \/ CBody(t)
        \/ CWriteFile(t)
        \/ CCachePut(t)
        \/ DelCall(t)
        \/ DelCheck(t)
        \/ DelRemoveFile(t)
        \/ DelCacheRemove(t)
        \/ DelIndex(t)
        \/ DelSave(t)

SpecDelete == CInit /\ [][LNext]_vars

(* C35: once delete_project(P) has returned true and every concurrent      *)
(* call has finished, there is no document file and no cache entry for P,  *)
(* and a read of P's children finds no project.                            *)
C35_DeletedStaysDeleted ==
    (last.op = "delete_project" /\ \A t \in Threads : thr[t].pc = "idle") =>
        /\ ~disk[project_path(last.id)].exists
        /\ last.id \notin DOMAIN projects_cache
        /\ ~load_project(JsState, last.id).ok

(* C36: with no write by another process, whenever no call is in progress  *)
(* every entry of the project cache is the content of the project's        *)
(* document on disk.                                                       *)
C36_CacheCoherent ==
    (\A t \in Threads : thr[t].pc = "idle") =>
        \A id \in DOMAIN projects_cache :
            /\ disk[project_path(id)].exists
            /\ from_str(disk[project_path(id)].bytes) = [ok |-> TRUE, v |-> projects_cache[id]]

---------------------------------------------------------------------------
(* Concurrent saves of the index (SpecIndex).  Each thread calls           *)
(* set_setting: the insert under the metadata write lock, then             *)
(* save_metadata, which holds the metadata read lock while                 *)
(* write_json_atomic creates, writes and renames metadata.json.tmp.  Two   *)
(* readers hold the lock together, so the file system calls of two saves   *)
(* interleave on the one temporary path.  A handle stays on the file it    *)
(* opened: fd is the path that file is at now, or "unlinked".              *)

SettingIdle(calls, oks, errs) ==
    [pc |-> "idle", calls |-> calls, oks |-> oks, errs |-> errs,
     key |-> "", value |-> "", json |-> <<>>, off |-> 0, fd |-> <<>>]

NInit ==
    /\ disk = json_new(EmptyDisk).js.disk
    /\ metadata = json_new(EmptyDisk).js.metadata
    /\ projects_cache = <<>>
    /\ conn = NoConn
    /\ sqlite_files = <<>>
    /\ clock = 0
    /\ next_id = 0
    /\ last = NoLast
    /\ w = IdleW
    /\ thr = [t \in Threads |-> SettingIdle(0, 0, 0)]
    /\ mig = IdleMig
    /\ NoReload

NOthers == UNCHANGED <<sqlite_files, projects_cache, conn, clock, next_id, last, w, mig, rvars>>

\* a thread inside save_metadata holds the metadata read lock
HoldsRead(t) == thr[t].pc \in {"create", "write", "rename"}

\* pwrite of one chunk at an offset: a gap before it reads as NUL
WriteAt(bytes, off, chunk) ==
    [i \in 1..(IF Len(bytes) > off + 1 THEN Len(bytes) ELSE off + 1) |->
        IF i = off + 1 THEN chunk ELSE IF i <= Len(bytes) THEN bytes[i] ELSE "NUL"]

\* set_setting(key, value) is called
NCall(t, key, value) ==
    /\ thr[t].pc = "idle"
    /\ thr[t].calls < MaxCalls
    /\ thr' = [thr EXCEPT ![t].pc = "insert", ![t].calls = @ + 1,
                          ![t].key = key, ![t].value = value]
    /\ UNCHANGED <<disk, metadata>>
    /\ NOthers

\* metadata.write(): global_settings.insert, once no reader holds the lock
NInsert(t) ==
    /\ thr[t].pc = "insert"
    /\ \A u \in Threads : ~HoldsRead(u)
    /\ metadata' = [metadata EXCEPT !.global_settings = Put(@, thr[t].key, thr[t].value)]
    /\ thr' = [thr EXCEPT ![t].pc = "serialize"]
    /\ UNCHANGED disk
    /\ NOthers

\* save_metadata: metadata.read(), then to_string_pretty in write_json_atomic
NSerialize(t) ==
    /\ thr[t].pc = "serialize"
    /\ thr' = [thr EXCEPT ![t].pc = "create",
                          ![t].json = to_string_pretty(MetadataToDoc(metadata))]
    /\ UNCHANGED <<disk, metadata>>
    /\ NOthers

\* fs::File::create(&temp_path): a new file, or the existing one truncated
NCreate(t) ==
    /\ thr[t].pc = "create"
    /\ disk' = FileCreate(disk, temp_path(metadata_path))
    /\ thr' = [thr EXCEPT ![t].pc = "write", ![t].off = 0,
                          ![t].fd = temp_path(metadata_path)]
    /\ UNCHANGED metadata
    /\ NOthers

\* file.write_all, one chunk per step, through the thread's handle
NWrite(t) ==
    /\ thr[t].pc = "write"
    /\ thr[t].off < Len(thr[t].json)
    /\ disk' = IF thr[t].fd = "unlinked" THEN disk
               ELSE [disk EXCEPT ![thr[t].fd].bytes =
                         WriteAt(@, thr[t].off, thr[t].json[thr[t].off + 1])]
    /\ thr' = [thr EXCEPT ![t].off = @ + 1]
    /\ UNCHANGED metadata
    /\ NOthers

\* file.sync_all and drop(file)
NSync(t) ==
    /\ thr[t].pc = "write"
    /\ thr[t].off = Len(thr[t].json)
    /\ thr' = [thr EXCEPT ![t].pc = "rename"]
    /\ UNCHANGED <<disk, metadata>>
    /\ NOthers

\* fs::rename(&temp_path, path): Ok(()), or Err when the temporary file is
\* gone; the read lock is released on return
NRename(t) ==
    /\ thr[t].pc = "rename"
    /\ LET tmp == temp_path(metadata_path)
       IN IF disk[tmp].exists
          THEN /\ disk' = FsRename(disk, tmp, metadata_path)
               /\ thr' = [u \in Threads |->
                            IF u = t THEN SettingIdle(thr[t].calls, thr[t].oks + 1, thr[t].errs)
                            ELSE IF thr[u].fd = tmp THEN [thr[u] EXCEPT !.fd = metadata_path]
                            ELSE IF thr[u].fd = metadata_path THEN [thr[u] EXCEPT !.fd = "unlinked"]
                            ELSE thr[u]]
          ELSE /\ thr' = [thr EXCEPT ![t] = SettingIdle(@.calls, @.oks, @.errs + 1)]
               /\ UNCHANGED disk
    /\ UNCHANGED metadata
    /\ NOthers

NNext ==
    \E t \in Threads :
        \/ \E key \in {"k"}, value \in {"v", "x"} : NCall(t, key, value)
        \/ NInsert(t)
        \/ NSerialize(t)
        \/ NCreate(t)
        \/ NWrite(t)
        \/ NSync(t)
        \/ NRename(t)

SpecIndex == NInit /\ [][NNext]_vars

(* C37: when two calls that rewrite metadata.json run concurrently, both   *)
(* return Ok, metadata.json holds one complete serialized index at every   *)
(* moment, and once both have finished it holds the index in memory.       *)
C37_ConcurrentIndexSaves ==
    /\ \A t \in Threads : thr[t].errs = 0
    /\ disk[metadata_path].exists /\ from_str(disk[metadata_path].bytes).ok
    /\ (\A t \in Threads : thr[t].pc = "idle") =>
           from_str(disk[metadata_path].bytes).v = MetadataToDoc(metadata)

---------------------------------------------------------------------------
(* Failing writes (SpecIo).  Every write_json_atomic and remove_file of a  *)
(* call may return an I/O error, which the call hands on with `?`; a       *)
(* failed write leaves its destination as it was.  fault names the file    *)
(* system call of the operation that fails, "none" when all succeed.       *)

json_create_project_faulty(js, id, name, ts, fault) ==
    LET project_data == ProjectDoc(id, name, <<>>, <<>>, <<>>, ts, ts)
        js1 == save_project(js, project_data)
        js2 == [js1 EXCEPT !.metadata.project_ids = Append(@, id)]
    IN CASE fault = "project" -> [ok |-> FALSE, js |-> js]
         [] fault = "index" -> [ok |-> FALSE, js |-> js2]
         [] OTHER -> [ok |-> TRUE, js |-> save_metadata(js2)]

json_delete_project_faulty(js, id, fault) ==
    LET js1 == [js EXCEPT !.disk[project_path(id)] = ABSENT,
                          !.cache = Drop(@, id),
                          !.metadata.project_ids = SelectSeq(@, LAMBDA pid : pid # id)]
    IN CASE id \notin Range(js.metadata.project_ids) -> [ok |-> TRUE, js |-> js]
         [] fault = "project" -> [ok |-> FALSE, js |-> js]
         [] fault = "index" -> [ok |-> FALSE, js |-> js1]
         [] OTHER -> [ok |-> TRUE, js |-> save_metadata(js1)]

json_set_setting_faulty(js, key, value, fault) ==
    LET js1 == [js EXCEPT !.metadata.global_settings = Put(@, key, value)]
    IN IF fault = "index" THEN [ok |-> FALSE, js |-> js1]
       ELSE [ok |-> TRUE, js |-> save_metadata(js1)]

\* the rows import_data has gone through when the save_project of row n
\* fails: the rows before it
RowsBefore(data, n) == SubSeq(data.projects, 1, n - 1)

\* import_data in merge mode; failing 0: every write succeeds; failing n in
\* 1..Len(data.projects): the save_project of row n fails; failing
\* Len(data.projects) + 1: the final save_metadata fails
json_import_data_faulty(js, data, failing) ==
    LET rows == IF failing \in 1..Len(data.projects) THEN RowsBefore(data, failing)
                ELSE data.projects
        r == json_import_projects(js, rows, data, ZeroImportResult)
    IN IF failing = 0 THEN [ok |-> TRUE, js |-> save_metadata(r.js)]
       ELSE [ok |-> FALSE, js |-> r.js]

Faults == {"none", "project", "index"}

IoEnvelopes ==
    {data \in ImportEnvelopes : data.items = <<>> /\ ~data.file_cards.some}

EApply(op, fault, rj) ==
    /\ disk' = rj.js.disk
    /\ projects_cache' = rj.js.cache
    /\ metadata' = rj.js.metadata
    /\ last' = [op |-> op, ok |-> rj.ok, fault |-> fault, before |-> metadata]
    /\ UNCHANGED <<sqlite_files, conn, clock, w, thr, mig, rvars>>

ECreateProject(fault) ==
    /\ next_id < MaxIds - 1
    /\ next_id' = next_id + 1
    /\ EApply("create_project", fault,
              json_create_project_faulty(JsState, next_id + 1, "a", clock, fault))

EDeleteProject(id, fault) ==
    /\ EApply("delete_project", fault, json_delete_project_faulty(JsState, id, fault))
    /\ UNCHANGED next_id

ESetSetting(value, fault) ==
    /\ fault # "project"
    /\ EApply("set_setting", fault, json_set_setting_faulty(JsState, "k", value, fault))
    /\ UNCHANGED next_id

\* a failing row is a row that is written: one not yet listed
EImportData(data, failing) ==
    /\ failing \in 1..Len(data.projects) =>
           data.projects[failing].id \notin
               Range(json_import_projects(JsState, RowsBefore(data, failing), data,
                                          ZeroImportResult).js.metadata.project_ids)
    /\ EApply("import_data",
              IF failing = 0 THEN "none"
              ELSE IF failing > Len(data.projects) THEN "index" ELSE "project",
              json_import_data_faulty(JsState, data, failing))
    /\ UNCHANGED next_id

ENext ==
    \/ \E fault \in Faults : ECreateProject(fault)
    \/ \E id \in Ids, fault \in Faults : EDeleteProject(id, fault)
    \/ \E value \in {"v", "x"}, fault \in Faults : ESetSetting(value, fault)
    \/ \E data \in IoEnvelopes :
           \E failing \in 0..(Len(data.projects) + 1) : EImportData(data, failing)

SpecIo == IInit /\ [][ENext]_vars

(* C38: when create_project, delete_project, set_setting or import_data    *)
(* has returned, with Ok or with Err, the project-id list and the settings *)
(* in memory are the content of metadata.json, and every listed id has a   *)
(* project document on disk.                                               *)
C38_IndexAgrees ==
    last.op # "none" =>
        /\ IndexInSync
        /\ \A id \in Range(metadata.project_ids) : disk[project_path(id)].exists

---------------------------------------------------------------------------
(* The locks of the document store (SpecLocks).  JsonStore has three       *)
(* RwLocks: metadata, projects_cache and last_metadata_mtime.  A call is   *)
(* the sequence of its lock acquisitions, releases (the end of the guard's *)
(* scope) and file system calls; the data are left out.  thr[t].held is    *)
(* the set of guards thread t holds.  A read guard is granted when no      *)
(* other guard on the lock is a write guard, a write guard when the lock   *)
(* has no guard at all.                                                    *)

Acq(lock, mode) == [a |-> "acquire", lock |-> lock, mode |-> mode]
Rel(lock, mode) == [a |-> "release", lock |-> lock, mode |-> mode]
Io == [a |-> "io", lock |-> "none", mode |-> "none"]

\* the variant without the block around the lookup: the read guard lives
\* to the end of the function
load_project_steps_guard_kept(hit) ==
    IF hit THEN <<Acq("projects_cache", "read"), Rel("projects_cache", "read")>>
    ELSE <<Acq("projects_cache", "read"), Io, Acq("projects_cache", "write"),
           Rel("projects_cache", "write"), Rel("projects_cache", "read")>>

\* load_project: the lookup under the read guard; on a miss the file is read
\* and the copy inserted under the write guard
load_project_steps(hit) ==
    IF hit THEN <<Acq("projects_cache", "read"), Rel("projects_cache", "read")>>
    ELSE <<Acq("projects_cache", "read"), Rel("projects_cache", "read"), Io,
           Acq("projects_cache", "write"), Rel("projects_cache", "write")>>

\* save_project: write_json_atomic, then the insert under the write guard
save_project_steps ==
    <<Io, Acq("projects_cache", "write"), Rel("projects_cache", "write")>>

\* save_metadata: the read guard is held across write_json_atomic
save_metadata_steps == <<Acq("metadata", "read"), Io, Rel("metadata", "read")>>

\* set_setting / delete_setting: { metadata.write() .. } then save_metadata
set_setting_steps ==
    <<Acq("metadata", "write"), Rel("metadata", "write")>> \o save_metadata_steps

LockOps ==
    {"get_all_projects", "get_project_by_id", "create_project", "delete_project",
     "update_item", "set_setting", "reload", "has_external_changes"}

\* the steps of a call; hit: load_project finds the project in the cache
CallSteps(op, hit) ==
    CASE op = "get_all_projects" ->
             <<Acq("metadata", "read")>> \o load_project_steps(hit)
                 \o <<Rel("metadata", "read")>>
      [] op = "get_project_by_id" ->
             <<Acq("metadata", "read"), Rel("metadata", "read")>> \o load_project_steps(hit)
      [] op = "create_project" ->
             save_project_steps \o <<Acq("metadata", "write"), Rel("metadata", "write")>>
                 \o save_metadata_steps
      [] op = "delete_project" ->
             <<Acq("metadata", "read"), Rel("metadata", "read"), Io,
               Acq("projects_cache", "write"), Rel("projects_cache", "write"),
               Acq("metadata", "write"), Rel("metadata", "write")>> \o save_metadata_steps
      [] op = "update_item" ->
             <<Acq("metadata", "read"), Rel("metadata", "read")>> \o load_project_steps(hit)
                 \o save_project_steps
      [] op = "set_setting" -> set_setting_steps
      [] op = "reload" ->
             <<Acq("projects_cache", "write"), Rel("projects_cache", "write"), Io,
               Acq("metadata", "write"), Rel("metadata", "write"), Io,
               Acq("last_metadata_mtime", "write"), Rel("last_metadata_mtime", "write")>>
      [] OTHER ->
             <<Io, Acq("last_metadata_mtime", "read"), Rel("last_metadata_mtime", "read")>>

LockIdle(calls) == [pc |-> 0, steps |-> <<>>, held |-> {}, calls |-> calls, op |-> "none"]

QInit ==
    /\ disk = EmptyDisk
    /\ metadata = NoStore
    /\ projects_cache = <<>>
    /\ conn = NoConn
    /\ sqlite_files = <<>>
    /\ clock = 0
    /\ next_id = 0
    /\ last = NoLast
    /\ w = IdleW
    /\ thr = [t \in Threads |-> LockIdle(0)]
    /\ mig = IdleMig
    /\ NoReload

QOthers ==
    UNCHANGED <<disk, sqlite_files, metadata, projects_cache, conn, clock, next_id, last, w, mig, rvars>>

\* the step thread t is at
At(t) == thr[t].steps[thr[t].pc]

Busy(t) == thr[t].pc > 0

\* the guards on a lock, over all threads
Guards(lock) == UNION {{g \in thr[t].held : g.lock = lock} : t \in Threads}

\* RwLock::read / RwLock::write return
CanAcquire(lock, mode) ==
    IF mode = "read" THEN \A g \in Guards(lock) : g.mode = "read"
    ELSE Guards(lock) = {}

\* a call starts
QCall(t, op, hit) ==
    /\ ~Busy(t)
    /\ thr[t].calls < MaxCalls
    /\ thr' = [thr EXCEPT ![t] = [pc |-> 1, steps |-> CallSteps(op, hit), held |-> {},
                                  calls |-> @.calls + 1, op |-> op]]
    /\ QOthers

QAcquire(t) ==
    /\ Busy(t) /\ thr[t].pc <= Len(thr[t].steps)
    /\ At(t).a = "acquire"
    /\ CanAcquire(At(t).lock, At(t).mode)
    /\ thr' = [thr EXCEPT ![t].pc = @ + 1,
                          ![t].held = @ \cup {[lock |-> At(t).lock, mode |-> At(t).mode,
                                               owner |-> t]}]
    /\ QOthers

QRelease(t) ==
    /\ Busy(t) /\ thr[t].pc <= Len(thr[t].steps)
    /\ At(t).a = "release"
    /\ thr' = [thr EXCEPT ![t].pc = @ + 1,
                          ![t].held = @ \ {[lock |-> At(t).lock, mode |-> At(t).mode,
                                            owner |-> t]}]
    /\ QOthers

\* a file system call: no lock is taken or released
QIo(t) ==
    /\ Busy(t) /\ thr[t].pc <= Len(thr[t].steps)
    /\ At(t).a = "io"
    /\ thr' = [thr EXCEPT ![t].pc = @ + 1]
    /\ QOthers

\* the call returns
QReturn(t) ==
    /\ Busy(t) /\ thr[t].pc > Len(thr[t].steps)
    /\ thr' = [thr EXCEPT ![t] = LockIdle(@.calls)]
    /\ QOthers

\* the steps of a call in progress; the scheduler runs every thread that can run
QRun(t) == QAcquire(t) \/ QRelease(t) \/ QIo(t) \/ QReturn(t)

QNext ==
    \E t \in Threads :
        \/ \E op \in LockOps, hit \in BOOLEAN : QCall(t, op, hit)
        \/ QAcquire(t)
        \/ QRelease(t)
        \/ QIo(t)
        \/ QReturn(t)

SpecLocks == QInit /\ [][QNext]_vars /\ \A t \in Threads : WF_vars(QRun(t))

\* thread t is about to ask for a guard
Asks(t, lock) ==
    Busy(t) /\ thr[t].pc <= Len(thr[t].steps) /\ At(t).a = "acquire" /\ At(t).lock = lock

Holds(t, lock) == \E g \in thr[t].held : g.lock = lock

(* C39: no thread asks for the metadata lock while it holds the cache      *)
(* lock, none asks for a lock it holds, and under fair scheduling every    *)
(* call in progress returns: no thread waits for ever on a lock.           *)
C39_DeadlockFree ==
    /\ [](\A t \in Threads :
            /\ ~(Asks(t, "metadata") /\ Holds(t, "projects_cache"))
            /\ \A lock \in {"metadata", "projects_cache", "last_metadata_mtime"} :
                   ~(Asks(t, lock) /\ Holds(t, lock)))
    /\ \A t \in Threads : Busy(t) ~> ~Busy(t)

\* a thread inside get_all_projects holds the metadata read guard and the
\* cache write guard while the other thread waits for the metadata write guard
C39_Witness ==
    \E t, u \in Threads :
        /\ thr[t].op = "get_all_projects"
        /\ Holds(t, "metadata")
        /\ [lock |-> "projects_cache", mode |-> "write", owner |-> t] \in thr[t].held
        /\ Asks(u, "metadata")
        /\ At(u).mode = "write"
        /\ ~CanAcquire("metadata", "write")

====
